---------------------------- MODULE Spec2Model ----------------------------
(***************************************************************************)
(* Verification model of the write-path reorganization core of TreeLine:   *)
(*   - db/memtable.cc         MemTable (sequence-stamped multi-version     *)
(*                            buffer over a skip list)                     *)
(*   - db/db_impl_reorg.cc    DBImpl::ReorganizeOverflowChain              *)
(* Integers are scaled: the 64-bit sequence word of the MemTable keeps its *)
(* layout (8 type bits below a counter) but the counter is CounterBits     *)
(* wide instead of 56, so that wrap-around is within the model's reach.    *)
(***************************************************************************)
EXTENDS Integers, Sequences, FiniteSets, TLC

VARIABLES
    \* ---- MemTable (db/memtable.cc) ----
    table,              \* table_: the skip list, as the sequence of its records
    next_sequence_num,  \* next_sequence_num_
    status,             \* Status returned by the last MemTable::Get
    entry_type_out,     \* *entry_type_out of the caller of Get
    value_out,          \* *value_out of the caller of Get
    getKey,             \* key of the Get that was the last call, or NoKey
    it,                 \* MemTable::Iterator position (0: !Valid())
    yielded,            \* records the iterator was positioned on since SeekToFirst
    scanAt,             \* next_sequence_num_ when SeekToFirst was called, -1: never
    log,                \* history of Put/Delete calls, in call order
    cmpA, cmpB, cmpC,   \* three records handed to MemTable::Comparator
    cmpRes              \* results of Comparator on their pairs, or NoResult

VARIABLES
    \* ---- DBImpl::ReorganizeOverflowChain (db/db_impl_reorg.cc) ----
    store,              \* page id -> page bytes held by the buffer manager
    model_,             \* model_: lower boundary key -> page id
    nextPageId,         \* the id FileManager::AllocatePage hands out next
    fixedX,             \* page ids whose frame the reorganization holds exclusively
    unfixLog,           \* UnfixPage calls of the current reorganization, in order
    reorg,              \* position and locals of ReorganizeOverflowChain
    pre,                \* store, model_ and nextPageId when the current call began
    reader              \* a reader thread: position, index entry, page

VARIABLES
    \* ---- the flush worker (FlushWorker, through DBImpl::FixOverflowChain) ----
    flush               \* position and locals of the flush worker

VARIABLES
    \* ---- pg::Manager (page_grouping/manager_load.cc, manager_rewrite.cc) ----
    index_,                 \* index_: segment base key -> SegmentInfo
    disk,                   \* the segment files: SegmentId -> the segment's pages
    free_,                  \* free_: the ids on the free list
    nextOffset,             \* per segment file, the offset AllocateSegment gives next
    next_sequence_number_,  \* next_sequence_number_
    options_,               \* options_ and bg_threads_ of the Manager
    op,                     \* the running top-level operation and its locals
    bgWrites,               \* WritePage tasks submitted to bg_threads_, not yet run
    pgReader,               \* a reader thread of the Manager
    bnd                     \* a segment handed to ComputePageLowerBoundaries, and the result

memVars == <<table, next_sequence_num, status, entry_type_out, value_out,
             getKey, it, yielded, scanAt, log>>
cmpVars == <<cmpA, cmpB, cmpC, cmpRes>>
reorgVars == <<store, model_, nextPageId, fixedX, unfixLog, reorg, pre, reader>>
flushVars == <<flush>>
pgVars == <<index_, disk, free_, nextOffset, next_sequence_number_, options_, op,
            bgWrites, pgReader>>
bndVars == <<bnd>>
vars == <<memVars, cmpVars, reorgVars, flushVars, pgVars, bndVars>>
\* What the actions of one part leave alone.
nonMemVars == <<cmpVars, reorgVars, flushVars, pgVars, bndVars>>
nonCmpVars == <<memVars, reorgVars, flushVars, pgVars, bndVars>>
nonReorgVars == <<memVars, cmpVars, flushVars, pgVars, bndVars>>
nonPgVars == <<memVars, cmpVars, reorgVars, flushVars, bndVars>>
nonBndVars == <<memVars, cmpVars, reorgVars, flushVars, pgVars>>

\* ------------------------------------------------------------------ bounds
\* Put/Delete calls per behaviour of the MemTable specifications.
MaxOps == 3
\* Put/Delete calls per behaviour of the wrap-around specification
\* (more than 2^CounterBits, so that the counter wraps).
WrapOps == 5
\* Largest sequence counter handed to the comparator specification.
MaxCmpCounter == 2
\* Keys a chain may hold records for.
MaxKey == 5
\* Calls of ReorganizeOverflowChain per behaviour.
MaxCalls == 2
\* Keys of the segment files.
MaxPgKey == 7
\* Writes of new keys per behaviour, ahead of the rewrites.
MaxPuts == 2
\* Records of the batch handed to RewriteSegments and FlattenChain.
MaxBatch == 2
\* Top-level operations of the Manager per behaviour.
MaxPgOps == 1
\* Records of the smallest dataset that is bulk loaded.
MinLoad == 5
\* Breaks of the line of the builder during a bulk load or a rewrite.
MaxBreaks == 1
\* Records the builder holds on to when an Offer returns segments.
MaxKeep == 1
\* Top-level operations of the Manager per behaviour over a small store.
MaxSmallOps == 2
\* The datasets of the specification with a reader have their keys among the
\* largest SmallLoad + 1.
SmallLoad == 2
\* The largest numerator and denominator of the slope of a line handed to
\* ComputePageLowerBoundaries.
MaxSlopeDen == 5
\* Keys of the streams handed to a PagePlusRecordMerger on its own.
MaxMergeKey == 4
\* Base keys of the index handed to step 1 of RewriteSegments on its own.
MaxIndexKey == 5

\* --------------------------------------------------------------- constants
\* MemTable::EntryType (memtable.h): kWrite, kDelete.
kWrite == 0
kDelete == 1
\* kEntryTypeMask, memtable.cc:9.
kEntryTypeMask == 255
\* The shift of InsertImpl, memtable.cc:59, as a factor: n << 8 = n * 256.
kTypeRadix == 256
\* Width of the counter part of sequence_number: 64 - 8 = 56 in the code,
\* scaled to 2 here (the counter wraps after 2^CounterBits inserts).
CounterBits == 2

\* 2^64 of the code, scaled: the sequence word holds CounterBits + 8 bits.
SeqMod == (2 ^ CounterBits) * kTypeRadix
\* std::numeric_limits<uint64_t>::max(), memtable.cc:153.
MaxSeq == SeqMod - 1

MemKeys == {<<1>>, <<1, 2>>}
MemValues == {"a", "b"}
EmptyValue == ""
NoKey == <<0, 0, 0>>
Unset == "unset"

\* ---------------------------------------------------------------- Slice
\* Slice::compare: bytewise lexicographic order, a proper prefix first.
RECURSIVE SliceCompare(_, _)
SliceCompare(a, b) ==
    IF a = <<>> /\ b = <<>> THEN 0
    ELSE IF a = <<>> THEN -1
    ELSE IF b = <<>> THEN 1
    ELSE IF Head(a) < Head(b) THEN -1
    ELSE IF Head(a) > Head(b) THEN 1
    ELSE SliceCompare(Tail(a), Tail(b))

\* ------------------------------------------------------------- Comparator
\* A mutant: equal keys ordered by ascending sequence number.
ComparatorAscending(r1, r2) ==
    LET comp == SliceCompare(r1.key, r2.key) IN
    IF comp # 0 THEN comp
    ELSE IF r1.sequence_number < r2.sequence_number THEN -1
    ELSE IF r1.sequence_number > r2.sequence_number THEN 1
    ELSE 0

\* A mutant: equal keys always compare equal.
ComparatorKeyOnly(r1, r2) == SliceCompare(r1.key, r2.key)

\* MemTable::Comparator::operator().
Comparator(r1, r2) ==
    LET comp == SliceCompare(r1.key, r2.key) IN
    IF comp # 0 THEN comp
    ELSE IF r1.sequence_number < r2.sequence_number THEN 1
    ELSE IF r1.sequence_number > r2.sequence_number THEN -1
    ELSE 0

\* ------------------------------------------------------------- skip list
\* SkipList::FindGreaterOrEqual: the first position whose record is >= r,
\* 0 when there is none (nullptr).
FindGreaterOrEqual(t, r) ==
    LET ge == {i \in 1..Len(t) : Comparator(t[i], r) >= 0} IN
    IF ge = {} THEN 0 ELSE CHOOSE i \in ge : \A j \in ge : i <= j

\* SkipList::Insert: link the record in front of the first record >= it.
SkipListInsert(t, r) ==
    LET p == FindGreaterOrEqual(t, r) IN
    IF p = 0 THEN Append(t, r)
    ELSE SubSeq(t, 1, p - 1) \o <<r>> \o SubSeq(t, p, Len(t))

\* next_sequence_num_++ of InsertImpl (a uint64_t, scaled).
StampIncrement(n) == (n + 1) % SeqMod

\* A mutant: the entry type is not folded into the sequence word.
StampUntyped(n, entry_type) == (n * kTypeRadix) % SeqMod

\* (next_sequence_num_++ << 8) | entry_type of InsertImpl.
Stamp(n, entry_type) == ((n * kTypeRadix) % SeqMod) + entry_type

\* The record InsertImpl builds.
NewRecord(key, value, entry_type) ==
    [key |-> key, value |-> value,
     sequence_number |-> Stamp(next_sequence_num, entry_type)]

\* Where the iterator stands after an insert: it holds a node pointer, so a
\* record linked in front of its node moves its position by one.
ItAfterInsert(p) ==
    IF it # 0 /\ p # 0 /\ p <= it THEN it + 1 ELSE it

\* MemTable::InsertImpl.
InsertImpl(cap, key, value, entry_type) ==
    /\ Len(log) < cap
    /\ LET r == NewRecord(key, value, entry_type) IN
       /\ table' = SkipListInsert(table, r)
       /\ it' = ItAfterInsert(FindGreaterOrEqual(table, r))
    /\ next_sequence_num' = StampIncrement(next_sequence_num)
    /\ log' = Append(log, [type |-> entry_type, key |-> key, value |-> value,
                            sequence_number |-> Stamp(next_sequence_num, entry_type)])
    /\ getKey' = NoKey
    /\ UNCHANGED <<status, entry_type_out, value_out, yielded, scanAt>>
    /\ UNCHANGED nonMemVars

\* MemTable::Put.
Put(cap, key, value) == InsertImpl(cap, key, value, kWrite)

\* MemTable::Delete.
Delete(cap, key) == InsertImpl(cap, key, EmptyValue, kDelete)

\* ---------------------------------------------------------------- Iterator
\* MemTable::Iterator::Valid.
Valid(pos) == pos # 0

\* MemTable::Iterator::type.
IterType(rec) == rec.sequence_number % (kEntryTypeMask + 1)

\* A mutant: Seek looks up with sequence number 0.
SeekRecordZero(target) ==
    [key |-> target, value |-> EmptyValue, sequence_number |-> 0]

\* The lookup record MemTable::Iterator::Seek builds.
SeekRecord(target) ==
    [key |-> target, value |-> EmptyValue, sequence_number |-> MaxSeq]

\* MemTable::Iterator::Seek: position of the first record >= the lookup record.
Seek(t, target) == FindGreaterOrEqual(t, SeekRecord(target))

\* SkipList::Iterator::Next: the following node, nullptr after the last.
ListNext(t, pos) == IF pos < Len(t) THEN pos + 1 ELSE 0

\* A mutant: Next moves one record on and does not skip older versions.
NextPosNoSkip(t, pos) == ListNext(t, pos)

\* The loop of MemTable::Iterator::Next: move on until the key differs from
\* last_key or the list ends.
RECURSIVE SkipSame(_, _, _)
SkipSame(t, last_key, pos) ==
    LET nxt == ListNext(t, pos) IN
    IF ~Valid(nxt) THEN nxt
    ELSE IF SliceCompare(last_key, t[nxt].key) # 0 THEN nxt
    ELSE SkipSame(t, last_key, nxt)

\* MemTable::Iterator::Next, as the position it leaves the iterator on.
NextPos(t, pos) == SkipSame(t, t[pos].key, pos)

\* MemTable::Iterator::SeekToFirst.
SeekToFirstPos(t) == IF Len(t) = 0 THEN 0 ELSE 1

\* ------------------------------------------------------------------- Get
\* MemTable::Get.
Get(key) ==
    LET pos == Seek(table, key) IN
    /\ getKey' = key
    /\ IF ~Valid(pos) \/ SliceCompare(key, table[pos].key) # 0
       THEN /\ status' = "NotFound"
            /\ UNCHANGED <<entry_type_out, value_out>>
       ELSE /\ value_out' = table[pos].value
            /\ entry_type_out' = IterType(table[pos])
            /\ status' = "OK"
    /\ UNCHANGED <<table, next_sequence_num, it, yielded, scanAt, log>>
    /\ UNCHANGED nonMemVars

\* A scan: GetIterator() and SeekToFirst().
SeekToFirst ==
    /\ it' = SeekToFirstPos(table)
    /\ yielded' = IF Valid(it') THEN <<table[it']>> ELSE <<>>
    /\ scanAt' = Len(log)
    /\ getKey' = NoKey
    /\ UNCHANGED <<table, next_sequence_num, status, entry_type_out, value_out, log>>
    /\ UNCHANGED nonMemVars

\* A scan: one Next() of a valid iterator.
Next ==
    /\ Valid(it)
    /\ it' = NextPos(table, it)
    /\ yielded' = IF Valid(it') THEN Append(yielded, table[it']) ELSE yielded
    /\ getKey' = NoKey
    /\ UNCHANGED <<table, next_sequence_num, status, entry_type_out, value_out,
                   scanAt, log>>
    /\ UNCHANGED nonMemVars

\* ------------------------------------------------------------- comparator
\* Records handed to the comparator: every key, every counter, both types.
CmpKeys == {<<>>, <<1>>, <<1, 2>>, <<2>>}
CmpRecords ==
    {[key |-> k, value |-> EmptyValue, sequence_number |-> c * kTypeRadix + t] :
        k \in CmpKeys, c \in 0..MaxCmpCounter, t \in {kWrite, kDelete}}
NoResult == [done |-> FALSE, ab |-> 0, ba |-> 0, bc |-> 0, ac |-> 0]

\* Apply MemTable::Comparator to the pairs of the three records.
Compare ==
    /\ cmpRes = NoResult
    /\ cmpRes' = [done |-> TRUE,
                  ab |-> Comparator(cmpA, cmpB),
                  ba |-> Comparator(cmpB, cmpA),
                  bc |-> Comparator(cmpB, cmpC),
                  ac |-> Comparator(cmpA, cmpC)]
    /\ UNCHANGED <<cmpA, cmpB, cmpC>>
    /\ UNCHANGED nonCmpVars

\* ======================================================================
\* DBImpl::ReorganizeOverflowChain (db/db_impl_reorg.cc)
\* ======================================================================
\* Keys of the chain are the integers 1..MaxKey (64-bit big-endian keys compare
\* as numbers); the chain covers [ChainLower, ChainUpper).
ReorgKeys == 1..MaxKey
ChainLower == CHOOSE k \in ReorgKeys : \A j \in ReorgKeys : k <= j
ChainUpper == MaxKey + 1
\* The page id ReorganizeOverflowChain is called with: the chain's first link.
HeadPage == 1
\* The value stored under a key.
ValueOf(k) == k + 100
\* Caller-supplied page_fill_pct values.
FillPcts == {34, 67, 100}

\* Page::UsableSize(), scaled.
PageUsableSize == 25
\* Page::PerRecordMetadataSize(), scaled.
PerRecordMetadataSize == 1
\* options_.key_hints.record_size, scaled.
record_size == 5
\* chain->at(0)->GetPage().GetKeyPrefix().size(), scaled.
KeyPrefixSize == 1
\* options_.max_reorg_fanout.
max_reorg_fanout == 3

\* A page as the buffer manager holds it; memset(.., 0, Page::kSize) gives ZeroPage.
NewPage(lower, upper) ==
    [lower |-> lower, upper |-> upper, recs |-> <<>>, overflow |-> 0, zero |-> FALSE]
ZeroPage ==
    [lower |-> 0, upper |-> 0, recs |-> <<>>, overflow |-> 0, zero |-> TRUE]

\* effective_record_size.
EffectiveRecordSize == record_size - KeyPrefixSize

\* Records of the effective size that fit a page beside two fence records.
MaxPerPage ==
    (PageUsableSize - 2 * record_size) \div
        (EffectiveRecordSize + PerRecordMetadataSize)

\* The first estimate of dist.num_keys.
EstimatedKeys(chain_size) == chain_size * MaxPerPage

\* KeyDistHints::records_per_page(): the fill percentage of a page's capacity.
RecordsPerPage(pct) == (pct * MaxPerPage) \div 100

\* KeyDistHints::num_pages(): ceil(num_keys / records_per_page).
NumPages(num_keys, pct) ==
    (num_keys \div RecordsPerPage(pct)) +
        (IF num_keys % RecordsPerPage(pct) # 0 THEN 1 ELSE 0)

\* A mutant: the fill percentage is left as the caller gave it.
AdjustFillNone(num_keys, pct) == pct

\* while (dist.num_pages() > options_.max_reorg_fanout) ++dist.page_fill_pct.
RECURSIVE AdjustFill(_, _)
AdjustFill(num_keys, pct) ==
    IF NumPages(num_keys, pct) > max_reorg_fanout
    THEN AdjustFill(num_keys, pct + 1)
    ELSE pct

\* Page::Put: Full, and nothing stored, when the page holds MaxPerPage records.
PagePut(page, rec) ==
    IF Len(page.recs) < MaxPerPage
    THEN [page EXCEPT !.recs = Append(@, rec)]
    ELSE page

\* The records of a set, in ascending key order.
RECURSIVE SortedSeq(_)
SortedSeq(S) ==
    IF S = {} THEN <<>>
    ELSE LET m == CHOOSE x \in S : \A y \in S : x[1] <= y[1]
         IN <<m>> \o SortedSeq(S \ {m})

Range(f) == {f[x] : x \in DOMAIN f}

\* PageMergeIterator over the chain: its records in ascending key order.
MergeOrder(st, ch) ==
    SortedSeq(UNION {Range(st[ch[j]].recs) : j \in 1..Len(ch)})

\* The first pass: boundary_keys after the loop and the trailing emplace_back.
BoundaryKeys(merged, rpp, lower, upper) ==
    LET inner == IF Len(merged) = 0 THEN 0 ELSE (Len(merged) - 1) \div rpp IN
    <<lower>> \o [m \in 1..inner |-> merged[m * rpp + 1][1]] \o <<upper>>

\* Step 2: the in-memory pages, one per pair of adjacent boundary keys.
EmptyPages(n, bk) == [j \in 1..n |-> NewPage(bk[j], bk[j + 1])]

\* A mutant: every record goes to the first page.
TargetPageFirst(i, rpp) == 0

\* A mutant: the page of a record is computed for pages of one record more.
TargetPageWide(i, rpp) == i \div (rpp + 1)

\* temp_record_count / records_per_page: the page of the i-th record.
TargetPage(i, rpp) == i \div rpp

\* Step 3: the second pass, Put of the records from position i (0-based) on.
RECURSIVE Populate(_, _, _, _)
Populate(pgs, merged, i, rpp) ==
    IF i >= Len(merged) THEN pgs
    ELSE LET t == TargetPage(i, rpp) + 1 IN
         Populate([pgs EXCEPT ![t] = PagePut(@, merged[i + 1])], merged, i + 1, rpp)

\* A mutant: the loop does not step down from the last page index.
CommitOrderStuck(n) == [m \in 1..n |-> n - 1]

\* A mutant: the pages are committed in ascending page index.
CommitOrderAscending(n) == [m \in 1..n |-> m - 1]

\* for (size_t i = new_num_pages - 1; i < new_num_pages; --i): the indexes the
\* loop visits, in order (none when new_num_pages is 0: i starts at SIZE_MAX).
CommitOrder(n) == [m \in 1..n |-> n - m]

\* A mutant: the head frame is not released.
ReleaseCleanButHead(ch) ==
    [j \in 1..(Len(ch) - 1) |-> [page |-> ch[j + 1], is_dirty |-> FALSE]]

\* for (auto& frame : *chain) UnfixPage(*frame, false): the calls made.
ReleaseClean(ch) == [j \in 1..Len(ch) |-> [page |-> ch[j], is_dirty |-> FALSE]]

\* A mutant: a chain of length 1 is reorganized like any other.
IsTrivialNever(ch) == FALSE

\* chain->size() == 1.
IsTrivial(ch) == Len(ch) = 1

\* chain->size() > options_.max_reorg_fanout.
IsTooLong(ch) == Len(ch) > max_reorg_fanout

\* The page ids UnfixPage was called on by a list of calls.
Pages(calls) == {calls[j].page : j \in 1..Len(calls)}

\* The frames the flush worker holds exclusively.
FlushHeld == {flush.chain[j] : j \in 1..Len(flush.chain)}

Idle ==
    [pc |-> "idle", calls |-> 0, page_fill_pct |-> 0, chain |-> <<>>, fill |-> 0,
     records_per_page |-> 0, record_count |-> 0, boundary_keys |-> <<>>,
     new_num_pages |-> 0, pages |-> <<>>, step |-> 0, frame |-> 0, ret |-> "none"]

\* A caller invokes ReorganizeOverflowChain(page_id, page_fill_pct).
Call(pct) ==
    /\ reorg.pc = "idle"
    /\ reorg.calls < MaxCalls
    /\ reorg' = [Idle EXCEPT !.pc = "fix", !.calls = reorg.calls + 1,
                             !.page_fill_pct = pct, !.fill = pct]
    /\ pre' = [store |-> store, model |-> model_, nextPageId |-> nextPageId]
    /\ unfixLog' = <<>>
    /\ UNCHANGED <<store, model_, nextPageId, fixedX, reader>>
    /\ UNCHANGED nonReorgVars

\* FixOverflowChain(page_id, exclusive = true, unlock_before_returning = false):
\* fix the next link exclusively, waiting while a reader holds it.
FixOverflowChain ==
    /\ reorg.pc = "fix"
    /\ LET p == IF reorg.chain = <<>> THEN HeadPage
                ELSE store[reorg.chain[Len(reorg.chain)]].overflow
       IN /\ p \notin fixedX
          /\ p \notin FlushHeld
          /\ ~(reader.pc = "fixed" /\ reader.page = p)
          /\ fixedX' = fixedX \cup {p}
          /\ reorg' = [reorg EXCEPT !.chain = Append(@, p),
                                    !.pc = IF store[p].overflow = 0
                                           THEN "check" ELSE "fix"]
    /\ UNCHANGED <<store, model_, nextPageId, unfixLog, pre, reader>>
    /\ UNCHANGED nonReorgVars

\* if (chain->size() == 1): unfix the head clean and return OK.
ReturnTrivial ==
    /\ reorg.pc = "check"
    /\ IsTrivial(reorg.chain)
    /\ unfixLog' = unfixLog \o <<[page |-> reorg.chain[1], is_dirty |-> FALSE]>>
    /\ fixedX' = fixedX \ {reorg.chain[1]}
    /\ reorg' = [reorg EXCEPT !.pc = "idle", !.ret = "OK"]
    /\ UNCHANGED <<store, model_, nextPageId, pre, reader>>
    /\ UNCHANGED nonReorgVars

\* if (chain->size() > options_.max_reorg_fanout): unfix every frame clean and
\* return InvalidArgument.
ReturnTooLong ==
    /\ reorg.pc = "check"
    /\ ~IsTrivial(reorg.chain)
    /\ IsTooLong(reorg.chain)
    /\ unfixLog' = unfixLog \o ReleaseClean(reorg.chain)
    /\ fixedX' = fixedX \ Pages(ReleaseClean(reorg.chain))
    /\ reorg' = [reorg EXCEPT !.pc = "idle", !.ret = "InvalidArgument"]
    /\ UNCHANGED <<store, model_, nextPageId, pre, reader>>
    /\ UNCHANGED nonReorgVars

\* The locals after steps 1 to 3: the adjusted fill percentage, the first
\* pass, the allocation of the in-memory pages and the second pass.
Planned(ch) ==
    LET fill == AdjustFill(EstimatedKeys(Len(ch)), reorg.page_fill_pct)
        rpp == RecordsPerPage(fill)
        merged == MergeOrder(store, ch)
        bk == BoundaryKeys(merged, rpp, store[ch[1]].lower, store[ch[1]].upper)
        n == NumPages(Len(merged), fill)
    IN [reorg EXCEPT !.fill = fill, !.records_per_page = rpp,
                     !.record_count = Len(merged), !.boundary_keys = bk,
                     !.new_num_pages = n,
                     !.pages = Populate(EmptyPages(n, bk), merged, 0, rpp),
                     !.step = IF n = 0 THEN 0 ELSE 1, !.frame = 0,
                     !.pc = IF n = 0 THEN "surplus" ELSE "commit_write"]

\* The two assertions of the planning steps.
PlanAssertions(r) ==
    /\ r.record_count <= EstimatedKeys(Len(r.chain))
    /\ Len(r.boundary_keys) = r.new_num_pages + 1

\* Steps 1 to 3 on a chain of 2..max_reorg_fanout pages.
Plan ==
    /\ reorg.pc = "check"
    /\ ~IsTrivial(reorg.chain)
    /\ ~IsTooLong(reorg.chain)
    /\ reorg' = Planned(reorg.chain)
    /\ UNCHANGED <<store, model_, nextPageId, fixedX, unfixLog, pre, reader>>
    /\ UNCHANGED nonReorgVars

\* A build with assertions: a failed assert aborts the process, frames fixed.
PlanAbort ==
    /\ reorg.pc = "check"
    /\ ~IsTrivial(reorg.chain)
    /\ ~IsTooLong(reorg.chain)
    /\ ~PlanAssertions(Planned(reorg.chain))
    /\ reorg' = [Planned(reorg.chain) EXCEPT !.pc = "aborted"]
    /\ UNCHANGED <<store, model_, nextPageId, fixedX, unfixLog, pre, reader>>
    /\ UNCHANGED nonReorgVars

\* Step 4, one iteration, first half: take chain->at(i) or allocate and fix
\* a new page, and memcpy the in-memory page into the frame.
CommitWrite ==
    /\ reorg.pc = "commit_write"
    /\ LET i == CommitOrder(reorg.new_num_pages)[reorg.step]
           reuse == i < Len(reorg.chain)
           f == IF reuse THEN reorg.chain[i + 1] ELSE nextPageId
       IN /\ nextPageId' = IF reuse THEN nextPageId ELSE nextPageId + 1
          /\ fixedX' = fixedX \cup {f}
          /\ store' = (f :> reorg.pages[i + 1]) @@ store
          /\ reorg' = [reorg EXCEPT !.frame = f, !.pc = "commit_insert"]
    /\ UNCHANGED <<model_, unfixLog, pre, reader>>
    /\ UNCHANGED nonReorgVars

\* model_->Insert(frame->GetPage().GetLowerBoundary(), frame->GetPageId()).
CommitInsert ==
    /\ reorg.pc = "commit_insert"
    /\ model_' = (store[reorg.frame].lower :> reorg.frame) @@ model_
    /\ reorg' = [reorg EXCEPT !.pc = "commit_unfix"]
    /\ UNCHANGED <<store, nextPageId, fixedX, unfixLog, pre, reader>>
    /\ UNCHANGED nonReorgVars

\* UnfixPage(*frame, is_dirty = true) and the loop's --i.
CommitUnfix ==
    /\ reorg.pc = "commit_unfix"
    /\ unfixLog' = Append(unfixLog, [page |-> reorg.frame, is_dirty |-> TRUE])
    /\ fixedX' = fixedX \ {reorg.frame}
    /\ reorg' = IF reorg.step < reorg.new_num_pages
                THEN [reorg EXCEPT !.frame = 0, !.step = reorg.step + 1,
                                   !.pc = "commit_write"]
                ELSE [reorg EXCEPT !.frame = 0, !.step = reorg.new_num_pages,
                                   !.pc = "surplus"]
    /\ UNCHANGED <<store, model_, nextPageId, pre, reader>>
    /\ UNCHANGED nonReorgVars

\* for (i = new_num_pages; i < old_num_pages; ++i): zero the frame and unfix
\* it dirty (reorg.step is i).
Surplus ==
    /\ reorg.pc = "surplus"
    /\ reorg.step < Len(reorg.chain)
    /\ LET f == reorg.chain[reorg.step + 1]
       IN /\ store' = (f :> ZeroPage) @@ store
          /\ unfixLog' = Append(unfixLog, [page |-> f, is_dirty |-> TRUE])
          /\ fixedX' = fixedX \ {f}
    /\ reorg' = [reorg EXCEPT !.step = reorg.step + 1]
    /\ UNCHANGED <<model_, nextPageId, pre, reader>>
    /\ UNCHANGED nonReorgVars

\* The warning of the shrinking case and return Status::OK().
ReturnOK ==
    /\ reorg.pc = "surplus"
    /\ reorg.step >= Len(reorg.chain)
    /\ reorg' = [reorg EXCEPT !.pc = "idle", !.ret = "OK"]
    /\ UNCHANGED <<store, model_, nextPageId, fixedX, unfixLog, pre, reader>>
    /\ UNCHANGED nonReorgVars

\* ------------------------------------------------------------------ readers
\* The index entry a key resolves to: the greatest lower boundary <= key.
IndexEntry(k) ==
    CHOOSE b \in DOMAIN model_ :
        b <= k /\ \A c \in DOMAIN model_ : c <= k => c <= b

\* A reader resolves a key through the index.
ReaderLookup(k) ==
    /\ reader.pc = "idle"
    /\ reader' = [reader EXCEPT !.pc = "resolved", !.entry = IndexEntry(k),
                                !.page = model_[IndexEntry(k)]]
    /\ UNCHANGED <<store, model_, nextPageId, fixedX, unfixLog, reorg, pre>>
    /\ UNCHANGED nonReorgVars

\* FixPage(page, exclusive = false): waits while the frame is held exclusively.
ReaderFix ==
    /\ reader.pc = "resolved"
    /\ reader.page \notin fixedX
    /\ reader.page \notin FlushHeld
    /\ reader' = [reader EXCEPT !.pc = "fixed", !.after = (reorg.chain # <<>>)]
    /\ UNCHANGED <<store, model_, nextPageId, fixedX, unfixLog, reorg, pre>>
    /\ UNCHANGED nonReorgVars

\* UnfixPage by the reader.
ReaderUnfix ==
    /\ reader.pc = "fixed"
    /\ reader' = [reader EXCEPT !.pc = "idle", !.after = FALSE]
    /\ UNCHANGED <<store, model_, nextPageId, fixedX, unfixLog, reorg, pre>>
    /\ UNCHANGED nonReorgVars

\* ------------------------------------------------------------ flush worker
\* The flush worker before it asks for the chain.
FlushIdle ==
    [pc |-> "idle", pages_before |-> 0, pages_after |-> 0, behind |-> FALSE,
     call |-> 0, chain |-> <<>>, ret |-> "none"]

\* model_->GetNumPages().
GetNumPages(m) == Cardinality(DOMAIN m)

\* A mutant: FixOverflowChain never gives up the chain.
ModelChangedNever(before, after) == FALSE

\* FixOverflowChain's test after the head is fixed: the number of model pages
\* changed while the caller waited for the frame.
ModelChanged(before, after) == before # after

\* FixOverflowChain(page_id, exclusive = true) of the flush worker, up to its
\* FixPage on the head: it reads the number of model pages first.
FlushBegin ==
    /\ flush.pc = "idle"
    /\ flush' = [flush EXCEPT !.pc = "fix_head",
                              !.pages_before = GetNumPages(model_),
                              !.behind = (HeadPage \in fixedX),
                              !.call = reorg.calls]
    /\ UNCHANGED <<memVars, cmpVars, reorgVars, pgVars, bndVars>>

\* FixPage on the head returns (the frame is free); a changed number of model
\* pages makes FixOverflowChain unfix the head and return nullptr.
FlushFixHead ==
    /\ flush.pc = "fix_head"
    /\ HeadPage \notin fixedX
    /\ ~(reader.pc = "fixed" /\ reader.page = HeadPage)
    /\ flush' =
          IF ModelChanged(flush.pages_before, GetNumPages(model_))
          THEN [flush EXCEPT !.pc = "reinsert", !.ret = "null",
                             !.pages_after = GetNumPages(model_)]
          ELSE [flush EXCEPT !.pc = IF store[HeadPage].overflow = 0
                                    THEN "holding" ELSE "fix_next",
                             !.chain = <<HeadPage>>,
                             !.pages_after = GetNumPages(model_)]
    /\ UNCHANGED <<memVars, cmpVars, reorgVars, pgVars, bndVars>>

\* FixOverflowChain follows the overflow link of the last page it fixed.
FlushFixNext ==
    /\ flush.pc = "fix_next"
    /\ LET p == store[flush.chain[Len(flush.chain)]].overflow
       IN /\ p \notin fixedX
          /\ ~(reader.pc = "fixed" /\ reader.page = p)
          /\ flush' = [flush EXCEPT !.chain = Append(@, p),
                                    !.pc = IF store[p].overflow = 0
                                           THEN "holding" ELSE "fix_next"]
    /\ UNCHANGED <<memVars, cmpVars, reorgVars, pgVars, bndVars>>

\* The flush worker is done with the chain it was given and unfixes it.
FlushRelease ==
    /\ flush.pc = "holding"
    /\ flush' = [flush EXCEPT !.pc = "done", !.chain = <<>>, !.ret = "chain"]
    /\ UNCHANGED <<memVars, cmpVars, reorgVars, pgVars, bndVars>>

\* nullptr: the flush worker falls back to ReinsertionWorker.
FlushReinsert ==
    /\ flush.pc = "reinsert"
    /\ flush' = [flush EXCEPT !.pc = "done"]
    /\ UNCHANGED <<memVars, cmpVars, reorgVars, pgVars, bndVars>>

\* ----------------------------------------------------------- initial chains
\* A chain of len pages, page p holding the records of the keys placed on it.
ChainStore(len, place) ==
    [p \in 1..len |->
        [lower |-> ChainLower, upper |-> ChainUpper,
         recs |-> SortedSeq({<<k, ValueOf(k)>> : k \in {x \in ReorgKeys : place[x] = p}}),
         overflow |-> IF p < len THEN p + 1 ELSE 0,
         zero |-> FALSE]]

\* Placements of keys on the pages of a chain (0: the key is not stored), no
\* page holding more than MaxPerPage records.
Placements(len) ==
    {place \in [ReorgKeys -> 0..len] :
        \A p \in 1..len : Cardinality({k \in ReorgKeys : place[k] = p}) <= MaxPerPage}

\* Placements that fill the pages in key order.
BlockedPlacements(len) ==
    {place \in Placements(len) :
        /\ \A k \in ReorgKeys : \A j \in ReorgKeys :
              (k < j /\ place[j] # 0) => (place[k] # 0 /\ place[k] <= place[j])}

ReorgIdle ==
    /\ store = ChainStore(1, [k \in ReorgKeys |-> 0])
    /\ model_ = (ChainLower :> HeadPage)
    /\ nextPageId = 2
    /\ fixedX = {}
    /\ unfixLog = <<>>
    /\ reorg = Idle
    /\ pre = [store |-> store, model |-> model_, nextPageId |-> nextPageId]
    /\ reader = [pc |-> "idle", entry |-> 0, page |-> 0, after |-> FALSE]
    /\ flush = FlushIdle

ReorgInit(general) ==
    /\ \E len \in 1..(max_reorg_fanout + 1) :
          /\ \E place \in (IF general THEN Placements(len) ELSE BlockedPlacements(len)) :
                store = ChainStore(len, place)
          /\ nextPageId = len + 1
    /\ model_ = (ChainLower :> HeadPage)
    /\ fixedX = {}
    /\ unfixLog = <<>>
    /\ reorg = Idle
    /\ pre = [store |-> store, model |-> model_, nextPageId |-> nextPageId]
    /\ reader = [pc |-> "idle", entry |-> 0, page |-> 0, after |-> FALSE]
    /\ flush = FlushIdle

\* ======================================================================
\* pg::Manager (page_grouping/manager_load.cc, manager_rewrite.cc)
\* ======================================================================
\* Keys are the integers 1..MaxPgKey; KeyMax is std::numeric_limits<Key>::max().
PgKeys == 1..MaxPgKey
KeyMax == MaxPgKey + 1
\* SegmentBuilder::kSegmentPageCounts, {1, 2, 4, 8, 16} in the code, scaled.
kSegmentPageCounts == <<1, 2>>
\* The slots of the CircularPageBuffer of RewriteSegments: the largest segment
\* with an overflow on every page fits (kSegmentPageCounts.back() * 4 in the
\* code, which is twice that; scaled).
kWindowPages == 2 * kSegmentPageCounts[Len(kSegmentPageCounts)]
\* Records a page holds before Page::Put reports it full.
PageCap == 2
\* An invalid SegmentId; valid ids are positive, the segment file of an id is
\* its remainder by the number of files.
NoId == 0
\* No model: the std::optional<plr::Line64> of a single-page segment.
NoLine == [sn |-> 0, sd |-> 1, cn |-> 0, cd |-> 1]

Min(a, b) == IF a <= b THEN a ELSE b
\* The smallest and the largest key of a non-empty set.
MinOfKeys(S) == CHOOSE x \in S : \A y \in S : x <= y
MaxOfKeys(S) == CHOOSE x \in S : \A y \in S : y <= x

\* Key is an unsigned integer of a fixed width with KeyMax its largest value:
\* a sum or a difference of keys wraps around.
KeyWrap(x) == x % (KeyMax + 1)

\* A mutant: every segment of a file gets the id of the first one.
SegmentIdFirst(file, offset) == file + 1

\* SegmentId(file_offset, page_offset) as one number.
SegmentId(file, offset) == offset * Len(kSegmentPageCounts) + file + 1
\* The segment file of an id, and the page count of its segments.
FileOf(id) == (id - 1) % Len(kSegmentPageCounts)
PageCountOf(id) == kSegmentPageCounts[FileOf(id) + 1]
\* SegmentBuilder::kPageCountToSegment.
kPageCountToSegment(page_count) ==
    CHOOSE f \in 0..(Len(kSegmentPageCounts) - 1) : kSegmentPageCounts[f + 1] = page_count

\* ------------------------------------------------------------- plr::Line64
\* A line slope * x + intercept with slope sn/sd and intercept cn/cd; its value
\* at x is LineNum / LineDen.
LineNum(line, x) == line.sn * x * line.cd + line.cn * line.sd
LineDen(line) == line.sd * line.cd

\* Line::Invert(): x = (y - intercept) / slope.
Invert(line) ==
    [sn |-> line.sd, sd |-> line.sn, cn |-> (0 - line.cn) * line.sd, cd |-> line.cd * line.sn]

\* static_cast<Key>(double): the fraction is dropped (toward zero); a value of
\* -1 or less has no Key and the cast is undefined, which CastDefined tells.
CastDefined(line, y) == LineNum(line, y) > 0 - LineDen(line)
CastKey(line, y) ==
    IF LineNum(line, y) < 0 THEN 0 ELSE LineNum(line, y) \div LineDen(line)

\* A mutant: the page index is not capped at the last page.
PageForKeyUncapped(base_key, model, page_count, candidate) ==
    CastKey(model, KeyWrap(candidate - base_key))

\* PageForKey: min(page_count - 1, max(0.0, model(candidate - base_key))).
PageForKey(base_key, model, page_count, candidate) ==
    Min(page_count - 1, CastKey(model, KeyWrap(candidate - base_key)))

\* -------------------------------------------- ComputePageLowerBoundaries
\* std::lower_bound over the keys [lower, upper) for page_idx: the first key
\* whose page is not below page_idx, upper when there is none.
LowerBoundKey(seg, lower, upper, page_idx) ==
    LET hit == {k \in lower..(upper - 1) :
                   ~(PageForKey(seg.base_key, seg.model, seg.page_count, k) < page_idx)}
    IN IF hit = {} THEN upper ELSE CHOOSE k \in hit : \A j \in hit : k <= j

\* One iteration of the loop over page_idx: the search bounds, the key found
\* and what the casts and the three asserts make of it.
BoundaryOf(seg, page_idx) ==
    LET page_to_key == Invert(seg.model)
        candidate_boundary == KeyWrap(CastKey(page_to_key, page_idx) + seg.base_key)
        page_for_candidate ==
            PageForKey(seg.base_key, seg.model, seg.page_count, candidate_boundary)
        above == page_for_candidate >= page_idx
        other == IF above THEN page_idx - 1 ELSE page_idx + 1
        lower == IF above THEN KeyWrap(CastKey(page_to_key, page_idx - 1) + seg.base_key)
                 ELSE candidate_boundary
        upper == IF above THEN candidate_boundary
                 ELSE KeyWrap(CastKey(page_to_key, page_idx + 1) + seg.base_key)
        bound == LowerBoundKey(seg, lower, upper, page_idx)
    IN [lower |-> lower, upper |-> upper, bound |-> bound,
        defined |-> CastDefined(page_to_key, page_idx) /\ CastDefined(page_to_key, other),
        asserts |->
            /\ lower < upper
            /\ PageForKey(seg.base_key, seg.model, seg.page_count, bound) = page_idx
            /\ \/ bound = 0
               \/ PageForKey(seg.base_key, seg.model, seg.page_count, bound - 1) < page_idx]

\* A mutant: the candidate of the inverted model is taken as the boundary.
ComputePageLowerBoundariesDirect(seg) ==
    <<seg.base_key>> \o
    [i \in 1..(seg.page_count - 1) |->
        KeyWrap(CastKey(Invert(seg.model), i) + seg.base_key)]

\* ComputePageLowerBoundaries: the smallest key of each page.
ComputePageLowerBoundaries(seg) ==
    IF seg.page_count = 1 THEN <<seg.base_key>>
    ELSE <<seg.base_key>> \o
         [i \in 1..(seg.page_count - 1) |-> BoundaryOf(seg, i).bound]

\* The casts of ComputePageLowerBoundaries are defined and its asserts hold.
BoundariesSound(seg) ==
    \A i \in 1..(seg.page_count - 1) :
        BoundaryOf(seg, i).defined /\ BoundaryOf(seg, i).asserts

\* ---------------------------------------------------------------- pages
\* A page as the Page constructor leaves a zeroed buffer, and a zeroed page.
PgPage(lower, upper) ==
    [lower |-> lower, upper |-> upper, recs |-> <<>>, overflow |-> NoId,
     seq |-> 0, checksum |-> FALSE, model |-> NoLine]
PgZeroPage == PgPage(0, 0)

\* LoadIntoPage: the page holds the inclusive upper bound; Put of the records
\* in order, stopping at the first one the page has no room for.
LoadIntoPage(lower, upper, recs) ==
    [PgPage(lower, upper - 1) EXCEPT !.recs = SubSeq(recs, 1, Min(Len(recs), PageCap))]

\* A mutant: the cut is at the first record whose key is above page_upper.
CutoffItAbove(recs, page_start, page_upper) ==
    LET hit == {j \in page_start..Len(recs) : recs[j][1] > page_upper}
    IN IF hit = {} THEN Len(recs) + 1 ELSE CHOOSE j \in hit : \A i \in hit : j <= i

\* std::lower_bound(page_start, seg.records.end(), page_upper): the position
\* of the first record from page_start on whose key is not below page_upper.
CutoffIt(recs, page_start, page_upper) ==
    LET hit == {j \in page_start..Len(recs) : recs[j][1] >= page_upper}
    IN IF hit = {} THEN Len(recs) + 1 ELSE CHOOSE j \in hit : \A i \in hit : j <= i

\* The split of seg.records at the page boundaries, from page page_idx on.
RECURSIVE SplitByBoundaries(_, _, _, _, _)
SplitByBoundaries(seg, lower_boundaries, upper_bound, page_idx, page_start) ==
    IF page_idx >= Len(lower_boundaries) - 1
    THEN <<LoadIntoPage(lower_boundaries[Len(lower_boundaries)], upper_bound,
                        SubSeq(seg.records, page_start, Len(seg.records)))>>
    ELSE LET page_upper == lower_boundaries[page_idx + 2]
             cutoff_it == CutoffIt(seg.records, page_start, page_upper)
         IN <<LoadIntoPage(lower_boundaries[page_idx + 1], page_upper,
                           SubSeq(seg.records, page_start, cutoff_it - 1))>>
            \o SplitByBoundaries(seg, lower_boundaries, upper_bound,
                                 page_idx + 1, cutoff_it)

\* Step 1 of LoadIntoNewSegment: the pages of the segment in the buffer.
SegmentPages(seg, upper_bound) ==
    IF seg.page_count > 1
    THEN LET pages == SplitByBoundaries(seg, ComputePageLowerBoundaries(seg),
                                        upper_bound, 0, 1)
         IN [pages EXCEPT ![1].model = seg.model]
    ELSE <<LoadIntoPage(seg.base_key, upper_bound, seg.records)>>

\* A mutant: the checksum of the segment is not set.
SegmentWrapNoChecksum(pages, sequence_number) ==
    [i \in 1..Len(pages) |->
        [pages[i] EXCEPT !.seq = sequence_number, !.overflow = NoId]]

\* Step 2 of LoadIntoNewSegment: SetSequenceNumber, ComputeAndSetChecksum,
\* ClearAllOverflows.
SegmentWrap(pages, sequence_number) ==
    [i \in 1..Len(pages) |->
        [pages[i] EXCEPT !.seq = sequence_number, !.checksum = TRUE,
                         !.overflow = NoId]]

\* free_.Get(page_count): an id of that page count on the free list, if any.
FreeIds(free, page_count) == {id \in free : PageCountOf(id) = page_count}
FreeGet(free, page_count) ==
    CHOOSE id \in FreeIds(free, page_count) :
        \A j \in FreeIds(free, page_count) : id <= j

\* Step 3 of LoadIntoNewSegment and the write of LoadIntoNewPages: take an id
\* from the free list or allocate one, and write the pages there.
WriteNewSegment(io, pages) ==
    LET page_count == Len(pages)
        file == kPageCountToSegment(page_count)
        reuse == FreeIds(io.free, page_count) # {}
        seg_id == IF reuse THEN FreeGet(io.free, page_count)
                  ELSE SegmentId(file, io.next[file])
    IN [io |-> [disk |-> (seg_id :> pages) @@ io.disk,
                free |-> io.free \ {seg_id},
                next |-> IF reuse THEN io.next
                         ELSE [io.next EXCEPT ![file] = @ + 1]],
        id |-> seg_id]

\* SegmentInfo(seg_id, model).
SegmentInfo(seg_id, model) == [id |-> seg_id, model |-> model, overflow |-> FALSE]

\* A mutant: the index key of a new segment is its upper bound.
LoadedPairUpper(base_key, upper_bound, info) == <<upper_bound, info>>

\* The pair LoadIntoNewSegment returns: the key of the first record.
LoadedPair(base_key, upper_bound, info) == <<base_key, info>>

\* Manager::LoadIntoNewSegment.
LoadIntoNewSegment(io, sequence_number, seg, upper_bound) ==
    LET base_key == seg.records[1][1]
        w == WriteNewSegment(io, SegmentWrap(SegmentPages(seg, upper_bound),
                                             sequence_number))
    IN [io |-> w.io,
        pair |-> LoadedPair(base_key, upper_bound, SegmentInfo(w.id, seg.model))]

\* A mutant: the last page of LoadIntoNewPages takes the records of one page.
LastPageRecsOne(recs, page_start_idx, goal) ==
    SubSeq(recs, page_start_idx + 1, Min(Len(recs), page_start_idx + 1))

\* The records LoadIntoNewPages puts on the last page: all that are left.
LastPageRecs(recs, page_start_idx, goal) ==
    SubSeq(recs, page_start_idx + 1, Len(recs))

\* Manager::LoadIntoNewPages from page_start_idx on: the loop over the pages
\* of records_per_page_goal records, then the page of the records left over
\* (which SetSequenceNumber(0) stamps).
RECURSIVE LoadIntoNewPagesFrom(_, _, _, _, _, _, _, _)
LoadIntoNewPagesFrom(io, sequence_number, lower_bound, upper_bound, recs, goal, page_start_idx, segment_boundaries) ==
    LET page_end_idx == page_start_idx + goal
        num_records == Len(recs)
        lower == IF page_start_idx = 0 THEN lower_bound
                 ELSE recs[page_start_idx + 1][1]
    IN IF page_end_idx <= num_records
       THEN LET upper == IF page_end_idx = num_records THEN upper_bound
                         ELSE recs[page_end_idx + 1][1]
                page == LoadIntoPage(lower, upper,
                                     SubSeq(recs, page_start_idx + 1, page_end_idx))
                w == WriteNewSegment(io, <<[page EXCEPT !.seq = sequence_number]>>)
            IN LoadIntoNewPagesFrom(w.io, sequence_number, lower_bound, upper_bound,
                                    recs, goal, page_end_idx,
                                    Append(segment_boundaries,
                                           <<lower, SegmentInfo(w.id, NoLine)>>))
       ELSE IF page_start_idx < num_records
       THEN LET page == LoadIntoPage(lower, upper_bound,
                                     LastPageRecs(recs, page_start_idx, goal))
                w == WriteNewSegment(io, <<[page EXCEPT !.seq = 0]>>)
            IN [io |-> w.io,
                pairs |-> Append(segment_boundaries,
                                 <<lower, SegmentInfo(w.id, NoLine)>>)]
       ELSE [io |-> io, pairs |-> segment_boundaries]

\* Manager::LoadIntoNewPages.
LoadIntoNewPages(io, sequence_number, lower_bound, upper_bound, recs, goal) ==
    LoadIntoNewPagesFrom(io, sequence_number, lower_bound, upper_bound, recs, goal,
                         0, <<>>)

\* -------------------------------------------------------- SegmentBuilder
\* The builder holds the records offered since its last segment; Offer either
\* extends its line by the record or, when the line cannot take it (brk) or
\* the largest segment is full, emits segments of the records it holds, all
\* but the last keep of them, and goes on with those and the record. A
\* segment's base key is the key of its first record, its model a line
\* through the origin that sends the first record of page 1 to 1.
MaxPending(goal) == kSegmentPageCounts[Len(kSegmentPageCounts)] * goal

\* Records of a run that go to page 0 of a two-page segment.
FirstPageCount(n) == (n + 1) \div 2

\* The segment of a run of records: two pages when one cannot take them at
\* the goal, the others on page 1.
SegmentOf(recs, goal) ==
    IF Len(recs) > goal
    THEN [base_key |-> recs[1][1], page_count |-> 2,
          model |-> [sn |-> 1,
                     sd |-> recs[FirstPageCount(Len(recs)) + 1][1] - recs[1][1],
                     cn |-> 0, cd |-> 1],
          records |-> recs]
    ELSE [base_key |-> recs[1][1], page_count |-> 1, model |-> NoLine,
          records |-> recs]

\* The same run as single-page segments of goal records each.
RECURSIVE SinglePageSegments(_, _)
SinglePageSegments(recs, goal) ==
    IF recs = <<>> THEN <<>>
    ELSE <<SegmentOf(SubSeq(recs, 1, Min(goal, Len(recs))), goal)>>
         \o SinglePageSegments(SubSeq(recs, Min(goal, Len(recs)) + 1, Len(recs)), goal)

\* The segments the builder makes of the records it holds.
SegmentsOf(recs, goal, split) ==
    IF recs = <<>> THEN <<>>
    ELSE IF split THEN SinglePageSegments(recs, goal)
    ELSE <<SegmentOf(recs, goal)>>

\* SegmentBuilder::Offer: the builder afterwards and the segments returned.
Offer(pending, rec, goal, brk, split, keep) ==
    IF pending = <<>>
    THEN [pending |-> <<rec>>, segments |-> <<>>]
    ELSE IF brk \/ Len(pending) >= MaxPending(goal)
    THEN [pending |-> Append(SubSeq(pending, Len(pending) - keep + 1, Len(pending)), rec),
          segments |-> SegmentsOf(SubSeq(pending, 1, Len(pending) - keep), goal, split)]
    ELSE [pending |-> Append(pending, rec), segments |-> <<>>]

\* SegmentBuilder::Finish: everything held becomes segments.
Finish(pending, goal, split) ==
    [pending |-> <<>>, segments |-> SegmentsOf(pending, goal, split)]

\* SegmentBuilder::CurrentBaseKey: NoKeyYet when the builder is empty.
NoKeyYet == 0
CurrentBaseKey(pending) == IF pending = <<>> THEN NoKeyYet ELSE pending[1][1]

\* SegmentBuilder::BuildFromDataset: Offer of every record, then Finish; the
\* line breaks before the positions in brks.
RECURSIVE BuildFromDataset(_, _, _, _, _, _)
BuildFromDataset(records, i, pending, goal, brks, split) ==
    IF i > Len(records) THEN Finish(pending, goal, split).segments
    ELSE LET o == Offer(pending, records[i], goal, i \in brks, split, 0)
         IN o.segments \o BuildFromDataset(records, i + 1, o.pending, goal, brks, split)

\* ------------------------------------------------------------- PageChain
\* A page chain of the window: the copy of a main page and of its overflow.
SingleOnly(main) == [main |-> main, overflow |-> PgZeroPage, has_overflow |-> FALSE]
WithOverflow(main, overflow) ==
    [main |-> main, overflow |-> overflow, has_overflow |-> TRUE]

\* PageChain::NumPages.
ChainNumPages(pc) == IF pc.has_overflow THEN 2 ELSE 1

\* PageChain::GetIterator: the PageMergeIterator over the main page and the
\* overflow, their records in ascending key order.
ChainRecords(pc) ==
    SortedSeq(Range(pc.main.recs) \cup
              (IF pc.has_overflow THEN Range(pc.overflow.recs) ELSE {}))

\* PageChain::LargestKey: NoKeyYet when the chain holds no record.
LargestKey(pc) ==
    LET main_last == IF pc.main.recs = <<>> THEN NoKeyYet
                     ELSE pc.main.recs[Len(pc.main.recs)][1]
        overflow_last == IF ~pc.has_overflow \/ pc.overflow.recs = <<>> THEN NoKeyYet
                         ELSE pc.overflow.recs[Len(pc.overflow.recs)][1]
    IN IF overflow_last > main_last THEN overflow_last ELSE main_last

\* -------------------------------------------------- PagePlusRecordMerger
\* The merger is at record rec_it of the batch (it_ - rec_begin) and at record pmi
\* of the page records (both count the records passed).
\* PagePlusRecordMerger::HasPageRecords, HasRecords.
HasPageRecords(page_recs, pmi) == pmi < Len(page_recs)
HasRecords(page_recs, pmi, batch, rec_it) == HasPageRecords(page_recs, pmi) \/ rec_it < Len(batch)

\* A mutant: on equal keys the page record is returned and the batch record
\* is passed over.
GetNextPreferPage(page_recs, pmi, batch, rec_it) ==
    IF ~HasPageRecords(page_recs, pmi)
    THEN [r |-> batch[rec_it + 1], pmi |-> pmi, it |-> rec_it + 1]
    ELSE IF rec_it = Len(batch)
    THEN [r |-> page_recs[pmi + 1], pmi |-> pmi + 1, it |-> rec_it]
    ELSE IF batch[rec_it + 1][1] < page_recs[pmi + 1][1]
    THEN [r |-> batch[rec_it + 1], pmi |-> pmi, it |-> rec_it + 1]
    ELSE [r |-> page_recs[pmi + 1], pmi |-> pmi + 1,
          it |-> IF batch[rec_it + 1][1] = page_recs[pmi + 1][1] THEN rec_it + 1 ELSE rec_it]

\* A mutant: on equal keys the in-memory record is returned and the page
\* record is left for the next call.
GetNextKeepPage(page_recs, pmi, batch, rec_it) ==
    IF ~HasPageRecords(page_recs, pmi)
    THEN [r |-> batch[rec_it + 1], pmi |-> pmi, it |-> rec_it + 1]
    ELSE IF rec_it = Len(batch)
    THEN [r |-> page_recs[pmi + 1], pmi |-> pmi + 1, it |-> rec_it]
    ELSE IF batch[rec_it + 1][1] <= page_recs[pmi + 1][1]
    THEN [r |-> batch[rec_it + 1], pmi |-> pmi, it |-> rec_it + 1]
    ELSE [r |-> page_recs[pmi + 1], pmi |-> pmi + 1, it |-> rec_it]

\* PagePlusRecordMerger::GetNext: the record returned and the merger afterwards.
GetNext(page_recs, pmi, batch, rec_it) ==
    IF ~HasPageRecords(page_recs, pmi)
    THEN [r |-> batch[rec_it + 1], pmi |-> pmi, it |-> rec_it + 1]
    ELSE IF rec_it = Len(batch)
    THEN [r |-> page_recs[pmi + 1], pmi |-> pmi + 1, it |-> rec_it]
    ELSE IF batch[rec_it + 1][1] <= page_recs[pmi + 1][1]
    THEN [r |-> batch[rec_it + 1],
          pmi |-> IF batch[rec_it + 1][1] = page_recs[pmi + 1][1] THEN pmi + 1 ELSE pmi,
          it |-> rec_it + 1]
    ELSE [r |-> page_recs[pmi + 1], pmi |-> pmi + 1, it |-> rec_it]

\* ------------------------------------------------------------ the index
\* A mutant: the upper bound is always the largest key.
IndexUpperBoundAtEnd(idx, k) == KeyMax

\* index_.upper_bound(k): the smallest base key above k, KeyMax at the end.
IndexUpperBound(idx, k) ==
    LET above == {b \in DOMAIN idx : b > k}
    IN IF above = {} THEN KeyMax ELSE CHOOSE b \in above : \A c \in above : b <= c

\* The entry a key belongs to: the greatest base key not above it.
IndexFloor(idx, k) ==
    LET below == {b \in DOMAIN idx : b <= k}
    IN CHOOSE b \in below : \A c \in below : c <= b

\* A mutant: the keys of the pairs stay in the index.
IndexEraseNone(idx, pairs) == idx

\* index_.erase of the keys of the pairs.
IndexErase(idx, pairs) ==
    [b \in DOMAIN idx \ {pairs[j][1] : j \in 1..Len(pairs)} |-> idx[b]]

\* index_.insert of the pairs, one after the other: a key that is present
\* keeps its entry.
IndexInsert(idx, pairs) ==
    [b \in DOMAIN idx \cup {pairs[j][1] : j \in 1..Len(pairs)} |->
        IF b \in DOMAIN idx THEN idx[b]
        ELSE pairs[CHOOSE j \in 1..Len(pairs) :
                      pairs[j][1] = b /\ \A i \in 1..(j - 1) : pairs[i][1] # b][2]]

\* The disk, the free list and the file offsets as LoadIntoNewSegment and
\* LoadIntoNewPages take them.
Io == [disk |-> disk, free |-> free_, next |-> nextOffset]

\* A mutant: the write of the zero page is lost.
ZeroFirstPageLost(d, ids) == d

\* WritePage(seg_id, 0, zero) for each of the ids.
ZeroFirstPage(d, ids) ==
    [id \in DOMAIN d |-> IF id \in ids THEN [d[id] EXCEPT ![1] = PgZeroPage] ELSE d[id]]

\* ------------------------------------------------------------ bulk load
\* Step 2 of BulkLoadIntoSegmentsImpl from segment seg_idx on.
RECURSIVE BulkLoadSegmentsFrom(_, _, _, _)
BulkLoadSegmentsFrom(io, segments, seg_idx, segment_boundaries) ==
    IF seg_idx > Len(segments) THEN [io |-> io, pairs |-> segment_boundaries]
    ELSE LET upper_bound == IF seg_idx = Len(segments) THEN KeyMax
                            ELSE segments[seg_idx + 1].records[1][1]
             l == LoadIntoNewSegment(io, 0, segments[seg_idx], upper_bound)
         IN BulkLoadSegmentsFrom(l.io, segments, seg_idx + 1,
                                 Append(segment_boundaries, l.pair))

\* Nothing on disk: the Manager as its constructor leaves it.
EmptyIo == [disk |-> << >>, free |-> {}, next |-> [f \in 0..(Len(kSegmentPageCounts) - 1) |-> 0]]

\* Manager::BulkLoadIntoSegmentsImpl.
BulkLoadIntoSegmentsImpl(records, goal, brks, split) ==
    BulkLoadSegmentsFrom(EmptyIo, BuildFromDataset(records, 1, <<>>, goal, brks, split),
                         1, <<>>)

\* Manager::BulkLoadIntoPagesImpl.
BulkLoadIntoPagesImpl(records, goal) ==
    LoadIntoNewPages(EmptyIo, 0, records[1][1], KeyMax, records, goal)

\* ------------------------------------------------------ the write path
\* CircularPageBuffer: a ring of kWindowPages slots; head is the slot the next
\* Allocate hands out, tail the oldest slot handed out and not yet freed.
EmptyPageBuffer == [head |-> 0, tail |-> 0, free |-> kWindowPages]
NoSlot == kWindowPages
\* CircularPageBuffer::Allocate (the slot handed out is buf.head).
PageBufAllocate(buf) ==
    [buf EXCEPT !.head = (@ + 1) % kWindowPages, !.free = @ - 1]
\* CircularPageBuffer::Free (the slot released is buf.tail).
PageBufFree(buf) ==
    [buf EXCEPT !.tail = (@ + 1) % kWindowPages, !.free = @ + 1]

\* The pages of w_.buffer() that a segment takes, zeroed.
ZeroBuffer == [i \in 1..kSegmentPageCounts[Len(kSegmentPageCounts)] |-> PgZeroPage]

\* w_.buffer() once pages were put together in it or read into it: they take
\* its first pages, the others are as they were.
BufferWith(buffer, pages) ==
    [i \in 1..Len(buffer) |-> IF i <= Len(pages) THEN pages[i] ELSE buffer[i]]

\* No top-level operation has run and none is running. buffer is
\* w_.buffer(): the pages of the segment read or written last, or zeros; read
\* and copied are the pages ReadSegment loaded for the segment read last and
\* the pages ForEachPage then copied into the window;
\* offered are the records handed to seg_builder.Offer so far, freed the
\* chains popped from pages_processed so far, held whether the loop that
\* pops them has left one behind (the break), stale whether a flush came
\* between the read of a segment and the copy of its pages.
OpIdle ==
    [pc |-> "idle", kind |-> "none", base |-> NoKeyYet, batch |-> <<>>,
     segments_to_rewrite |-> <<>>, seg_i |-> 0, rewritten_segments |-> <<>>,
     overflows_to_clear |-> <<>>, sequence_number |-> 0, pending |-> <<>>,
     pages_to_process |-> <<>>, pages_processed |-> <<>>, pmi |-> 0, it |-> 0,
     flushes |-> 0, breaks |-> 0, asserts |-> TRUE, puts |-> 0,
     buffer |-> ZeroBuffer, offered |-> <<>>, read |-> <<>>, copied |-> <<>>,
     page_buf |-> EmptyPageBuffer, alloc_ok |-> TRUE, free_ok |-> TRUE,
     freed |-> <<>>, held |-> FALSE, stale |-> FALSE,
     pre |-> [index |-> << >>, disk |-> << >>, free |-> {}]]

\* The value of the records that are bulk loaded or put, and of the records
\* of the batch of the operation with a sequence number.
LoadedValue == 0
BatchValue(sequence_number) == sequence_number + 1

\* The records of a set of keys with one value, in key order.
RecordsOf(keys, value) == SortedSeq({<<k, value>> : k \in keys})

\* The keys of the chain of a page on disk.
ChainOnDisk(d, page) ==
    IF page.overflow # NoId THEN WithOverflow(page, d[page.overflow][1])
    ELSE SingleOnly(page)
PageKeys(d, page) == {r[1] : r \in Range(ChainRecords(ChainOnDisk(d, page)))}

\* The page of a key: the page of its entry's segment the model sends it to.
PageIndexOf(idx, k) ==
    LET b == IndexFloor(idx, k)
    IN IF PageCountOf(idx[b].id) > 1
       THEN PageForKey(b, idx[b].model, PageCountOf(idx[b].id), k)
       ELSE 0

\* A write of a new key that its page or the overflow of its page has room
\* for; an overflow page is allocated when the page is full and has none.
\* The write is the last top-level operation from then on.
PgPut(k) ==
    /\ op.pc = "idle"
    /\ op.puts < MaxPuts
    /\ \E b \in DOMAIN index_ : b <= k
    /\ LET b == IndexFloor(index_, k)
           id == index_[b].id
           at == PageIndexOf(index_, k) + 1
           page == disk[id][at]
           rec == <<k, LoadedValue>>
       IN /\ k \notin PageKeys(disk, page)
          /\ IF Len(page.recs) < PageCap
             THEN /\ disk' = [disk EXCEPT ![id][at].recs = SortedSeq(Range(@) \cup {rec})]
                  /\ UNCHANGED <<index_, free_, nextOffset>>
             ELSE IF page.overflow = NoId
             THEN LET w == WriteNewSegment(Io,
                               <<[PgPage(page.lower, page.upper) EXCEPT
                                     !.recs = <<rec>>, !.seq = page.seq,
                                     !.checksum = page.checksum]>>)
                  IN /\ disk' = [w.io.disk EXCEPT ![id][at].overflow = w.id]
                     /\ free_' = w.io.free
                     /\ nextOffset' = w.io.next
                     /\ index_' = [index_ EXCEPT ![b].overflow = TRUE]
             ELSE /\ Len(disk[page.overflow][1].recs) < PageCap
                  /\ disk' = [disk EXCEPT ![page.overflow][1].recs =
                                              SortedSeq(Range(@) \cup {rec})]
                  /\ UNCHANGED <<index_, free_, nextOffset>>
    /\ op' = [OpIdle EXCEPT !.puts = op.puts + 1]
    /\ UNCHANGED <<next_sequence_number_, options_, bgWrites, pgReader>>
    /\ UNCHANGED nonPgVars

\* ----------------------------------------------------- RewriteSegments
\* The batches a caller hands over for a segment: records in key order with
\* keys from the base of the segment up to the next base.
Batches(idx, base, value) ==
    {RecordsOf(ks, value) :
        ks \in {s \in SUBSET (base..(IndexUpperBound(idx, base) - 1)) :
                   Cardinality(s) <= MaxBatch}}

\* Step 1: the neighbors to the left and to the right, up to the first one
\* without an overflow.
NeighborsBackward(idx, base) ==
    {b \in DOMAIN idx :
        b < base /\ \A c \in DOMAIN idx : (b <= c /\ c < base) => idx[c].overflow}
NeighborsForward(idx, base) ==
    {b \in DOMAIN idx :
        b > base /\ \A c \in DOMAIN idx : (base < c /\ c <= b) => idx[c].overflow}

\* A mutant: segments_to_rewrite is left as the two scans filled it.
SegmentsToRewriteUnsorted(idx, base, consider_neighbors) ==
    <<<<base, idx[base]>>>>
       \o SortedSeq({<<b, idx[b]>> : b \in NeighborsForward(idx, base)})
       \o SortedSeq({<<b, idx[b]>> : b \in NeighborsBackward(idx, base)})

\* A mutant: only the segment at segment_base is rewritten.
SegmentsToRewriteAlone(idx, base, consider_neighbors) == <<<<base, idx[base]>>>>

\* segments_to_rewrite after step 1, sorted by key.
SegmentsToRewrite(idx, base, consider_neighbors) ==
    IF consider_neighbors
    THEN SortedSeq({<<b, idx[b]>> :
                      b \in {base} \cup NeighborsBackward(idx, base)
                                   \cup NeighborsForward(idx, base)})
    ELSE <<<<base, idx[base]>>>>

\* The choices of the builder at an Offer: whether its line breaks before the
\* record (MaxBreaks times a rewrite at most).
BreakChoices(o) == IF o.breaks < MaxBreaks /\ o.pending # <<>> THEN BOOLEAN ELSE {FALSE}

\* The choices of the builder at an Offer that returns segments: how many of
\* the records it holds stay with it (MaxKeep at most, and not all of them).
KeepChoices(o, goal, brk) ==
    IF o.pending # <<>> /\ (brk \/ Len(o.pending) >= MaxPending(goal))
    THEN 0..Min(MaxKeep, Len(o.pending) - 1)
    ELSE {0}

\* The slots the chains of a deque take.
RECURSIVE ChainSlots(_)
ChainSlots(chains) ==
    IF chains = <<>> THEN 0 ELSE ChainNumPages(Head(chains)) + ChainSlots(Tail(chains))
\* page_buf.NumFreePages().
NumFreePages(o) == o.page_buf.free

\* The slots a page and its overflow take in the window.
PagesOf(page) == IF page.overflow # NoId THEN 2 ELSE 1

\* n calls of Allocate, and n calls of Free.
PageBufAllocateN(buf, n) ==
    IF n = 2 THEN PageBufAllocate(PageBufAllocate(buf)) ELSE PageBufAllocate(buf)
PageBufFreeN(buf, n) ==
    IF n = 2 THEN PageBufFree(PageBufFree(buf)) ELSE PageBufFree(buf)

\* PageChain::WithOverflow(main_page, overflow_page) and SingleOnly(main_page)
\* over the slots Allocate hands out next.
ChainInSlots(buf, d, page) ==
    ChainOnDisk(d, page) @@
    [main_slot |-> buf.head,
     overflow_slot |-> IF page.overflow # NoId THEN PageBufAllocate(buf).head ELSE NoSlot]

\* chains_in_segment with one more chain in front.
WithChain(chain, rest) == [rest EXCEPT !.chains = <<chain>> \o @]

\* sw.ForEachPage: a slot is allocated for every page of the segment and for
\* its overflow; the chains hold the slots. ok is whether every Allocate so
\* far found a free slot.
RECURSIVE AllocateChains(_, _, _, _, _)
AllocateChains(buf, d, pages, i, ok) ==
    IF i > Len(pages) THEN [buf |-> buf, chains |-> <<>>, ok |-> ok]
    ELSE WithChain(ChainInSlots(buf, d, pages[i]),
                   AllocateChains(PageBufAllocateN(buf, PagesOf(pages[i])), d, pages,
                                  i + 1, ok /\ buf.free >= PagesOf(pages[i])))

\* The slots of a chain, and the slots the next n calls of Free release.
ChainSlotSet(pc) ==
    {pc.main_slot} \cup (IF pc.has_overflow THEN {pc.overflow_slot} ELSE {})
SlotsFreedNext(buf, n) == {(buf.tail + j) % kWindowPages : j \in 0..(n - 1)}

\* A mutant: a chain leaves the window with one call of Free.
RECURSIVE PopFrontOneFree(_, _, _)
PopFrontOneFree(buf, chains, ok) ==
    IF chains = <<>> THEN [buf |-> buf, ok |-> ok]
    ELSE PopFrontOneFree(PageBufFree(buf), Tail(chains),
                         ok /\ buf.tail = Head(chains).main_slot)

\* NumPages() calls of Free and pop_front for each of the chains, which are
\* at the front of pages_processed. ok is whether every Free so far released
\* a slot of the chain at the front.
RECURSIVE PopFront(_, _, _)
PopFront(buf, chains, ok) ==
    IF chains = <<>> THEN [buf |-> buf, ok |-> ok]
    ELSE PopFront(PageBufFreeN(buf, ChainNumPages(Head(chains))), Tail(chains),
                  ok /\ SlotsFreedNext(buf, ChainNumPages(Head(chains)))
                           \subseteq ChainSlotSet(Head(chains)))

\* The loop of load_into_segments_and_free_pages over the segments.
RECURSIVE LoadSegmentsFrom(_, _, _, _, _, _)
LoadSegmentsFrom(io, sequence_number, segments, i, last_upper, rewritten) ==
    IF i > Len(segments) THEN [io |-> io, pairs |-> rewritten]
    ELSE LET upper_bound == IF i < Len(segments) THEN segments[i + 1].base_key
                            ELSE last_upper
             l == LoadIntoNewSegment(io, sequence_number, segments[i], upper_bound)
         IN LoadSegmentsFrom(l.io, sequence_number, segments, i + 1, last_upper,
                             Append(rewritten, l.pair))

\* A mutant: every processed chain leaves the window.
KeepNone(processed, next_key) == <<>>

\* The processed chains that stay in the window: from the first one on whose
\* largest key is not below next_key.
RECURSIVE KeepFrom(_, _)
KeepFrom(processed, next_key) ==
    IF processed = <<>> THEN <<>>
    ELSE IF LargestKey(Head(processed)) # NoKeyYet
            /\ LargestKey(Head(processed)) >= next_key
    THEN processed
    ELSE KeepFrom(Tail(processed), next_key)

\* The window once the chains in front of those kept are popped.
Popped(o, kept, f) ==
    [o EXCEPT !.pages_processed = kept, !.page_buf = f.buf, !.free_ok = f.ok,
              !.freed = @ \o SubSeq(o.pages_processed, 1,
                                    Len(o.pages_processed) - Len(kept)),
              !.held = @ \/ kept # <<>>]

\* "Remove" no longer needed pages from memory: all but the chains kept.
FreePages(o, kept) ==
    Popped(o, kept,
           PopFront(o.page_buf,
                    SubSeq(o.pages_processed, 1, Len(o.pages_processed) - Len(kept)),
                    o.free_ok))

\* w_.buffer() after LoadIntoNewSegment has put together and written the
\* segments of the pairs from the i-th on, one after the other.
RECURSIVE BufferAfterLoads(_, _, _, _)
BufferAfterLoads(buffer, d, pairs, i) ==
    IF i > Len(pairs) THEN buffer
    ELSE BufferAfterLoads(BufferWith(buffer, d[pairs[i][2].id]), d, pairs, i + 1)

\* The operation and the files once the segments are written (none of them
\* when there was none): LoadIntoNewSegment puts every segment together in
\* w_.buffer().
WithLoaded(o, l, none) ==
    [io |-> l.io,
     op |-> [o EXCEPT !.rewritten_segments = l.pairs,
                      !.buffer = BufferAfterLoads(@, l.io.disk, l.pairs,
                                                  Len(o.rewritten_segments) + 1)]]

\* load_into_segments_and_free_pages, with o.pending the builder after the
\* call that returned the segments.
LoadIntoSegmentsAndFreePages(o, io, idx, segments) ==
    LET maybe_key == CurrentBaseKey(o.pending)
        last == segments[Len(segments)]
        last_upper == IF maybe_key # NoKeyYet THEN maybe_key
                      ELSE IndexUpperBound(idx, last.records[Len(last.records)][1])
    IN WithLoaded(FreePages(o, IF maybe_key # NoKeyYet
                               THEN KeepFrom(o.pages_processed, maybe_key)
                               ELSE <<>>),
                  IF segments = <<>> THEN [io |-> io, pairs |-> o.rewritten_segments]
                  ELSE LoadSegmentsFrom(io, o.sequence_number, segments, 1, last_upper,
                                        o.rewritten_segments),
                  segments = <<>>)

\* The window is short of room: Finish, write out, free the chains.
FlushWindow(o, io, idx, goal, split) ==
    LET segments == Finish(o.pending, goal, split).segments
    IN LoadIntoSegmentsAndFreePages(
           [o EXCEPT !.pending = <<>>, !.flushes = @ + 1,
                     !.asserts = @ /\ segments # <<>>],
           io, idx, segments)

SetIo(io) ==
    /\ disk' = io.disk
    /\ free_' = io.free
    /\ nextOffset' = io.next

\* RewriteSegments is called: steps 1 and the set-up of step 2.
RewriteSegments(segment_base) ==
    /\ op.pc = "idle"
    /\ options_.use_segments
    /\ segment_base \in DOMAIN index_
    /\ \E batch \in Batches(index_, segment_base, BatchValue(next_sequence_number_)) :
          op' = [OpIdle EXCEPT
                    !.pc = "segment", !.kind = "rewrite", !.base = segment_base,
                    !.batch = batch,
                    !.segments_to_rewrite =
                        SegmentsToRewrite(index_, segment_base,
                                          options_.consider_neighbors_during_rewrite),
                    !.seg_i = 1,
                    !.sequence_number = next_sequence_number_,
                    !.puts = op.puts,
                    !.pre = [index |-> index_, disk |-> disk, free |-> free_]]
    /\ next_sequence_number_' = next_sequence_number_ + 1
    /\ UNCHANGED <<index_, disk, free_, nextOffset, options_, bgWrites, pgReader>>
    /\ UNCHANGED nonPgVars

\* The assert after a flush: the window has room for what is read next.
AssertRoom(s, needed) ==
    [s EXCEPT !.op.asserts = @ /\ needed <= NumFreePages(s.op)]

\* One check of the room in the window: short of the slots needed, the window
\* is flushed.
FlushIfShort(s, needed, idx, goal, split) ==
    IF needed > NumFreePages(s.op)
    THEN AssertRoom(FlushWindow(s.op, s.io, idx, goal, split), needed)
    ELSE s

\* The overflows of the pages of a segment, in page order.
OverflowsOf(pages) ==
    SelectSeq([i \in 1..Len(pages) |-> pages[i].overflow], LAMBDA id : id # NoId)

\* ReadSegment: the pages of the segment are read into w_.buffer().
ReadSegment(s, pages) ==
    [s EXCEPT !.op.buffer = BufferWith(@, pages), !.op.read = pages]

\* The pages sw views: the first segment_pages pages of w_.buffer().
PagesInBuffer(o, segment_pages) == SubSeq(o.buffer, 1, segment_pages)

\* The head of the loop over segments_to_rewrite: the check of the room for
\* the segment, the read of the segment into w_.buffer(), the check of the
\* room for the segment and its overflows, and the copy of the pages that
\* w_.buffer() then holds into the window, with the read of their overflows.
RwReadSegment ==
    /\ op.pc = "segment"
    /\ \E split \in BOOLEAN :
      \E pages \in {disk[op.segments_to_rewrite[op.seg_i][2].id]} :
        \E r \in {ReadSegment(FlushIfShort([op |-> op, io |-> Io], Len(pages), index_,
                                           options_.records_per_page_goal, split),
                              pages)} :
         \E s \in {FlushIfShort(r, Len(pages) + Len(OverflowsOf(pages)), index_,
                                 options_.records_per_page_goal, split)} :
          \E copy \in {PagesInBuffer(s.op, Len(pages))} :
           \E a \in {AllocateChains(s.op.page_buf, disk, copy, 1, s.op.alloc_ok)} :
            /\ op' = [s.op EXCEPT
                         !.pc = "process",
                         !.overflows_to_clear = @ \o OverflowsOf(copy),
                         !.pages_to_process = @ \o a.chains,
                         !.page_buf = a.buf,
                         !.alloc_ok = a.ok,
                         !.copied = copy,
                         !.stale = @ \/ s.op.flushes > r.op.flushes,
                         !.pmi = 0]
            /\ SetIo(s.io)
    /\ UNCHANGED <<index_, next_sequence_number_, options_, bgWrites, pgReader>>
    /\ UNCHANGED nonPgVars

\* One round of the inner loop: the next record of the merger is offered to
\* the builder, the segments it returns are written out.
RwOffer ==
    /\ op.pc = "process"
    /\ op.pages_to_process # <<>>
    /\ HasPageRecords(ChainRecords(Head(op.pages_to_process)), op.pmi)
    /\ \E brk \in BreakChoices(op), split \in BOOLEAN :
      \E n \in {GetNext(ChainRecords(Head(op.pages_to_process)), op.pmi,
                         op.batch, op.it)},
         keep \in KeepChoices(op, options_.records_per_page_goal, brk) :
        \E b \in {Offer(op.pending, n.r, options_.records_per_page_goal, brk, split,
                         keep)} :
          \E o \in {[op EXCEPT !.pending = b.pending, !.pmi = n.pmi, !.it = n.it,
                               !.offered = Append(@, n.r),
                               !.breaks = IF brk THEN @ + 1 ELSE @]} :
            \E s \in {IF b.segments = <<>> THEN [op |-> o, io |-> Io]
                       ELSE LoadIntoSegmentsAndFreePages(o, Io, index_, b.segments)} :
               /\ op' = s.op
               /\ SetIo(s.io)
    /\ UNCHANGED <<index_, next_sequence_number_, options_, bgWrites, pgReader>>
    /\ UNCHANGED nonPgVars

\* Done with this page chain: it moves to pages_processed; after the last
\* chain of the segment the loop turns to the next segment.
RwChainDone ==
    /\ op.pc = "process"
    /\ op.pages_to_process # <<>>
    /\ ~HasPageRecords(ChainRecords(Head(op.pages_to_process)), op.pmi)
    /\ op' = [op EXCEPT
                 !.pages_processed = Append(@, Head(op.pages_to_process)),
                 !.pages_to_process = Tail(@),
                 !.pmi = 0,
                 !.seg_i = IF Tail(op.pages_to_process) = <<>> THEN @ + 1 ELSE @,
                 !.pc = IF Tail(op.pages_to_process) # <<>> THEN "process"
                        ELSE IF op.seg_i < Len(op.segments_to_rewrite) THEN "segment"
                        ELSE "leftover"]
    /\ UNCHANGED <<index_, disk, free_, nextOffset, next_sequence_number_, options_,
                   bgWrites, pgReader>>
    /\ UNCHANGED nonPgVars

\* Handle any leftover in-memory records.
RwLeftover ==
    /\ op.pc = "leftover"
    /\ HasRecords(<<>>, 0, op.batch, op.it)
    /\ \E brk \in BreakChoices(op), split \in BOOLEAN :
      \E n \in {GetNext(<<>>, 0, op.batch, op.it)},
         keep \in KeepChoices(op, options_.records_per_page_goal, brk) :
        \E b \in {Offer(op.pending, n.r, options_.records_per_page_goal, brk, split,
                         keep)} :
          \E o \in {[op EXCEPT !.pending = b.pending, !.it = n.it,
                               !.offered = Append(@, n.r),
                               !.breaks = IF brk THEN @ + 1 ELSE @]} :
            \E s \in {IF b.segments = <<>> THEN [op |-> o, io |-> Io]
                       ELSE LoadIntoSegmentsAndFreePages(o, Io, index_, b.segments)} :
               /\ op' = s.op
               /\ SetIo(s.io)
    /\ UNCHANGED <<index_, next_sequence_number_, options_, bgWrites, pgReader>>
    /\ UNCHANGED nonPgVars

\* Handle any leftover segments.
RwFinish ==
    /\ op.pc = "leftover"
    /\ ~HasRecords(<<>>, 0, op.batch, op.it)
    /\ \E split \in BOOLEAN :
      \E segments \in {Finish(op.pending, options_.records_per_page_goal, split).segments} :
        \E o \in {[op EXCEPT !.pending = <<>>, !.pc = "invalidate"]} :
          \E s \in {IF segments = <<>> THEN [op |-> o, io |-> Io]
                     ELSE LoadIntoSegmentsAndFreePages(o, Io, index_, segments)} :
             /\ op' = s.op
             /\ SetIo(s.io)
    /\ UNCHANGED <<index_, next_sequence_number_, options_, bgWrites, pgReader>>
    /\ UNCHANGED nonPgVars

\* The ids step 3 invalidates: the old segments and their overflows.
OldIds(o) ==
    {o.segments_to_rewrite[j][2].id : j \in 1..Len(o.segments_to_rewrite)}
    \cup Range(o.overflows_to_clear)

\* Step 3: the first page of every old segment and overflow is zeroed (by
\* the background threads when there are any) and the ids go to the free list.
RwInvalidate ==
    /\ op.pc = "invalidate"
    /\ op.kind = "rewrite"
    /\ IF options_.bg_threads
       THEN bgWrites' = bgWrites \cup OldIds(op) /\ UNCHANGED disk
       ELSE disk' = ZeroFirstPage(disk, OldIds(op)) /\ UNCHANGED bgWrites
    /\ free_' = free_ \cup OldIds(op)
    /\ op' = [op EXCEPT !.pc = "erase", !.buffer[1] = PgZeroPage]
    /\ UNCHANGED <<index_, nextOffset, next_sequence_number_, options_, pgReader>>
    /\ UNCHANGED nonPgVars

\* WritePage(seg_id, 0, zero) of a task: the page at zero goes to the disk as
\* it is when the task runs.
WriteFromBuffer(d, id, buffer) == [d EXCEPT ![id][1] = buffer]

\* A task of bg_threads_ runs: WritePage(seg_id, 0, zero).
BgWritePage ==
    /\ \E id \in bgWrites :
        /\ disk' = WriteFromBuffer(disk, id, op.buffer[1])
        /\ bgWrites' = bgWrites \ {id}
    /\ UNCHANGED <<index_, free_, nextOffset, next_sequence_number_, options_, op,
                   pgReader>>
    /\ UNCHANGED nonPgVars

\* Step 4, first loop: the old keys leave the index.
RwErase ==
    /\ op.pc = "erase"
    /\ op.kind = "rewrite"
    /\ index_' = IndexErase(index_, op.segments_to_rewrite)
    /\ op' = [op EXCEPT
                 !.pc = "insert",
                 !.asserts = @ /\ \A j \in 1..Len(op.segments_to_rewrite) :
                                      op.segments_to_rewrite[j][1] \in DOMAIN index_]
    /\ UNCHANGED <<disk, free_, nextOffset, next_sequence_number_, options_, bgWrites,
                   pgReader>>
    /\ UNCHANGED nonPgVars

\* Step 4, second loop: the new segments enter the index.
RwInsert ==
    /\ op.pc = "insert"
    /\ op.kind = "rewrite"
    /\ index_' = IndexInsert(index_, op.rewritten_segments)
    /\ op' = [op EXCEPT !.pc = "wait"]
    /\ UNCHANGED <<disk, free_, nextOffset, next_sequence_number_, options_, bgWrites,
                   pgReader>>
    /\ UNCHANGED nonPgVars

\* A mutant: the futures are not waited on.
FuturesNotJoined(writes) == TRUE

\* f.get() of every future of write_futures has returned: no task is left.
FuturesJoined(writes) == writes = {}

\* Step 5: the futures are waited on, RewriteSegments returns.
RwWait ==
    /\ op.pc = "wait"
    /\ op.kind = "rewrite"
    /\ FuturesJoined(bgWrites)
    /\ op' = [op EXCEPT !.pc = "idle"]
    /\ UNCHANGED <<index_, disk, free_, nextOffset, next_sequence_number_, options_,
                   bgWrites, pgReader>>
    /\ UNCHANGED nonPgVars

\* -------------------------------------------------------- FlattenChain
\* A mutant: on equal keys the record of the chain is kept.
FlattenMergePreferDisk(page_recs, i, batch, j) ==
    SortedSeq(Range(page_recs) \cup
              {r \in Range(batch) : \A p \in Range(page_recs) : p[1] # r[1]})

\* The three loops that merge the records of the chain (from i on) with those
\* in memory (from j on): on equal keys the in-memory record is taken.
RECURSIVE FlattenMerge(_, _, _, _)
FlattenMerge(page_recs, i, batch, j) ==
    IF i <= Len(page_recs) /\ j <= Len(batch)
    THEN IF page_recs[i][1] = batch[j][1]
         THEN <<batch[j]>> \o FlattenMerge(page_recs, i + 1, batch, j + 1)
         ELSE IF page_recs[i][1] < batch[j][1]
         THEN <<page_recs[i]>> \o FlattenMerge(page_recs, i + 1, batch, j)
         ELSE <<batch[j]>> \o FlattenMerge(page_recs, i, batch, j + 1)
    ELSE SubSeq(page_recs, i, Len(page_recs)) \o SubSeq(batch, j, Len(batch))

\* FlattenChain is called: the chain is read and merged with the batch, the
\* records are loaded into new pages.
FlattenChain(base) ==
    /\ op.pc = "idle"
    /\ ~options_.use_segments
    /\ base \in DOMAIN index_
    /\ PageCountOf(index_[base].id) = 1
    /\ \E batch \in Batches(index_, base, BatchValue(next_sequence_number_)) :
        LET main_page_id == index_[base].id
            upper == IndexUpperBound(index_, base)
            main == disk[main_page_id][1]
            overflow_page_id == main.overflow
            pc == ChainOnDisk(disk, main)
            records == FlattenMerge(ChainRecords(pc), 1, batch, 1)
            sequence_number == next_sequence_number_
            new_pages == LoadIntoNewPages(Io, sequence_number, base, upper, records,
                                          options_.records_per_page_goal)
        IN /\ op' = [OpIdle EXCEPT
                        !.pc = "invalidate", !.kind = "flatten", !.base = base,
                        !.batch = batch,
                        !.segments_to_rewrite = <<<<base, index_[base]>>>>,
                        !.overflows_to_clear =
                            IF overflow_page_id # NoId THEN <<overflow_page_id>>
                            ELSE <<>>,
                        !.rewritten_segments = new_pages.pairs,
                        !.buffer =
                            IF new_pages.pairs = <<>> THEN ZeroBuffer
                            ELSE BufferWith(ZeroBuffer,
                                     new_pages.io.disk[
                                        new_pages.pairs[Len(new_pages.pairs)][2].id]),
                        !.sequence_number = sequence_number,
                        !.puts = op.puts,
                        !.pre = [index |-> index_, disk |-> disk, free |-> free_]]
           /\ SetIo(new_pages.io)
    /\ next_sequence_number_' = next_sequence_number_ + 1
    /\ UNCHANGED <<index_, options_, bgWrites, pgReader>>
    /\ UNCHANGED nonPgVars

\* The old main page and its overflow are zeroed (by the background threads
\* when there are any) and their ids go to the free list.
FlInvalidate ==
    /\ op.pc = "invalidate"
    /\ op.kind = "flatten"
    /\ IF options_.bg_threads
       THEN bgWrites' = bgWrites \cup OldIds(op) /\ UNCHANGED disk
       ELSE disk' = ZeroFirstPage(disk, OldIds(op)) /\ UNCHANGED bgWrites
    /\ free_' = free_ \cup OldIds(op)
    /\ op' = [op EXCEPT !.pc = "erase", !.buffer[1] = PgZeroPage]
    /\ UNCHANGED <<index_, nextOffset, next_sequence_number_, options_, pgReader>>
    /\ UNCHANGED nonPgVars

\* index_.erase(base).
FlErase ==
    /\ op.pc = "erase"
    /\ op.kind = "flatten"
    /\ index_' = IndexErase(index_, op.segments_to_rewrite)
    /\ op' = [op EXCEPT !.pc = "insert"]
    /\ UNCHANGED <<disk, free_, nextOffset, next_sequence_number_, options_, bgWrites,
                   pgReader>>
    /\ UNCHANGED nonPgVars

\* index_.insert(new_pages.begin(), new_pages.end()).
FlInsert ==
    /\ op.pc = "insert"
    /\ op.kind = "flatten"
    /\ index_' = IndexInsert(index_, op.rewritten_segments)
    /\ op' = [op EXCEPT !.pc = "wait"]
    /\ UNCHANGED <<disk, free_, nextOffset, next_sequence_number_, options_, bgWrites,
                   pgReader>>
    /\ UNCHANGED nonPgVars

\* The futures are waited on, FlattenChain returns.
FlWait ==
    /\ op.pc = "wait"
    /\ op.kind = "flatten"
    /\ FuturesJoined(bgWrites)
    /\ op' = [op EXCEPT !.pc = "idle"]
    /\ UNCHANGED <<index_, disk, free_, nextOffset, next_sequence_number_, options_,
                   bgWrites, pgReader>>
    /\ UNCHANGED nonPgVars

\* ----------------------------------------------------- a reader thread
PgReaderIdle ==
    [pc |-> "idle", key |-> NoKeyYet, base |-> NoKeyYet,
     info |-> SegmentInfo(NoId, NoLine), seq |-> 0, seen |-> PgZeroPage,
     live |-> FALSE, freed |-> FALSE]

\* The reader looks the entry of a key up in the index (the keys looked up
\* are base keys, whose page is the first of the segment).
PgReaderLookup(k) ==
    /\ pgReader.pc = "idle"
    /\ k \in DOMAIN index_
    /\ LET b == IndexFloor(index_, k)
       IN pgReader' = [PgReaderIdle EXCEPT
                          !.pc = "found", !.key = k, !.base = b, !.info = index_[b],
                          !.seq = disk[index_[b].id][1].seq]
    /\ UNCHANGED <<index_, disk, free_, nextOffset, next_sequence_number_, options_,
                   op, bgWrites>>
    /\ UNCHANGED nonPgVars

\* The reader reads the page of the key in the segment of the entry.
PgReaderRead ==
    /\ pgReader.pc = "found"
    /\ LET id == pgReader.info.id
           at == IF PageCountOf(id) > 1
                 THEN PageForKey(pgReader.base, pgReader.info.model, PageCountOf(id),
                                 pgReader.key) + 1
                 ELSE 1
       IN pgReader' = [pgReader EXCEPT
                          !.pc = "read",
                          !.seen = disk[id][at],
                          !.live = pgReader.base \in DOMAIN index_
                                   /\ index_[pgReader.base] = pgReader.info,
                          !.freed = id \in free_]
    /\ UNCHANGED <<index_, disk, free_, nextOffset, next_sequence_number_, options_,
                   op, bgWrites>>
    /\ UNCHANGED nonPgVars

\* The reader is done with the page.
PgReaderDone ==
    /\ pgReader.pc = "read"
    /\ pgReader' = PgReaderIdle
    /\ UNCHANGED <<index_, disk, free_, nextOffset, next_sequence_number_, options_,
                   op, bgWrites>>
    /\ UNCHANGED nonPgVars

\* ------------------------------------------------------ initial states
\* The Manager before anything is loaded.
PgIdle ==
    /\ index_ = << >>
    /\ disk = << >>
    /\ free_ = {}
    /\ nextOffset = EmptyIo.next
    /\ next_sequence_number_ = 0
    /\ options_ = [records_per_page_goal |-> PageCap, use_segments |-> TRUE,
                   consider_neighbors_during_rewrite |-> FALSE, bg_threads |-> FALSE]
    /\ op = OpIdle
    /\ bgWrites = {}
    /\ pgReader = PgReaderIdle

\* The datasets that are bulk loaded, as sets of keys.
Datasets(least, most) ==
    {s \in SUBSET PgKeys : least <= Cardinality(s) /\ Cardinality(s) <= most}
\* Small datasets of the largest keys.
SmallDatasets == {s \in SUBSET ((MaxPgKey - SmallLoad)..MaxPgKey) : s # {}}

\* The positions of a dataset before which the line of the builder breaks.
BreakSets(n) == {s \in SUBSET (2..n) : Cardinality(s) <= MaxBreaks}

\* The Manager that BulkLoadIntoSegments returns.
PgLoadedSegments(datasets, neighbors, bg) ==
    \E keys \in datasets, goal \in 1..PageCap :
      \E brks \in BreakSets(Cardinality(keys)) :
        LET l == BulkLoadIntoSegmentsImpl(RecordsOf(keys, LoadedValue), goal, brks, FALSE)
        IN /\ index_ = IndexInsert(<< >>, l.pairs)
           /\ disk = l.io.disk
           /\ free_ = l.io.free
           /\ nextOffset = l.io.next
           /\ next_sequence_number_ = 0
           /\ options_ \in [records_per_page_goal : {goal}, use_segments : {TRUE},
                            consider_neighbors_during_rewrite : neighbors,
                            bg_threads : bg]
           /\ op = OpIdle
           /\ bgWrites = {}
           /\ pgReader = PgReaderIdle

\* The Manager that BulkLoadIntoPages returns.
PgLoadedPages(datasets, bg) ==
    \E keys \in datasets, goal \in 1..PageCap :
        LET l == BulkLoadIntoPagesImpl(RecordsOf(keys, LoadedValue), goal)
        IN /\ index_ = IndexInsert(<< >>, l.pairs)
           /\ disk = l.io.disk
           /\ free_ = l.io.free
           /\ nextOffset = l.io.next
           /\ next_sequence_number_ = 0
           /\ options_ \in [records_per_page_goal : {goal}, use_segments : {FALSE},
                            consider_neighbors_during_rewrite : {FALSE},
                            bg_threads : bg]
           /\ op = OpIdle
           /\ bgWrites = {}
           /\ pgReader = PgReaderIdle

\* ---------------------------------------- segments handed to the loader
\* No segment has been handed over.
BndIdle ==
    bnd = [pc |-> "idle", seg |-> SegmentOf(<<<<1, LoadedValue>>>>, PageCap),
           upper_bound |-> KeyMax, lower_boundaries |-> <<>>, pages |-> <<>>]

\* The page counts of the multi-page segments handed over.
BndPageCounts == {2, 4}

\* The lines of multi-page segments: a slope sn/sd of at most one page per
\* key, the intercept 0 or half a page below.
BndLines ==
    {[sn |-> a, sd |-> b, cn |-> c, cd |-> IF c = 0 THEN 1 ELSE 2] :
        <<a, b, c>> \in {t \in (1..MaxSlopeDen) \X (1..MaxSlopeDen) \X {0 - 1, 0} :
                            t[1] <= t[2]}}

\* The line sends a key of the key space to the last page of the segment.
BndFits(base_key, model, page_count) ==
    \E k \in base_key..MaxPgKey : CastKey(model, k - base_key) >= page_count - 1

\* The keys are records the builder puts into one segment: the first one is
\* the base key, one of them is sent to the last page, and no page is sent
\* more records than it holds.
BndRecordKeys(base_key, model, page_count, ks) ==
    /\ base_key \in ks
    /\ \E k \in ks : PageForKey(base_key, model, page_count, k) = page_count - 1
    /\ \A i \in 0..(page_count - 1) :
          Cardinality({k \in ks : PageForKey(base_key, model, page_count, k) = i})
              <= PageCap

\* A segment of the builder is handed to LoadIntoNewSegment, with the upper
\* bound of its key range: the largest key or a key above its last record.
BndSegmentHanded ==
    \E base_key \in PgKeys, page_count \in BndPageCounts, model \in BndLines :
        /\ BndFits(base_key, model, page_count)
        /\ \E ks \in SUBSET (base_key..MaxPgKey) :
              /\ BndRecordKeys(base_key, model, page_count, ks)
              /\ \E upper_bound \in {MaxOfKeys(ks) + 1, KeyMax} :
                    bnd = [pc |-> "seg",
                           seg |-> [base_key |-> base_key, page_count |-> page_count,
                                    model |-> model,
                                    records |-> RecordsOf(ks, LoadedValue)],
                           upper_bound |-> upper_bound,
                           lower_boundaries |-> <<>>, pages |-> <<>>]

\* LoadIntoNewSegment calls ComputePageLowerBoundaries; a failed assert ends
\* the program.
BndComputePageLowerBoundaries ==
    /\ bnd.pc = "seg"
    /\ bnd' = [bnd EXCEPT
                  !.lower_boundaries = ComputePageLowerBoundaries(bnd.seg),
                  !.pc = IF BoundariesSound(bnd.seg) THEN "bounds" ELSE "aborted"]
    /\ UNCHANGED nonBndVars

\* The rest of steps 1 and 2 of LoadIntoNewSegment: the split of the records
\* at the boundaries into the pages of the buffer, and the SegmentWrap.
BndLoadIntoNewSegment ==
    /\ bnd.pc = "bounds"
    /\ bnd' = [bnd EXCEPT
                  !.pages = SegmentWrap(SegmentPages(bnd.seg, bnd.upper_bound), 0),
                  !.pc = "loaded"]
    /\ UNCHANGED nonBndVars

\* ---------------------------------------------------------- specifications
MemInit ==
    /\ table = <<>>
    /\ next_sequence_num = 0
    /\ status = Unset
    /\ entry_type_out = Unset
    /\ value_out = Unset
    /\ getKey = NoKey
    /\ it = 0
    /\ yielded = <<>>
    /\ scanAt = -1
    /\ log = <<>>

CmpIdle ==
    /\ cmpA = [key |-> <<>>, value |-> EmptyValue, sequence_number |-> 0]
    /\ cmpB = cmpA
    /\ cmpC = cmpA
    /\ cmpRes = NoResult

CmpInit ==
    /\ cmpA \in CmpRecords
    /\ cmpB \in CmpRecords
    /\ cmpC \in CmpRecords
    /\ cmpRes = NoResult

\* The MemTable under Put, Delete, Get and one iterator.
Init == MemInit /\ CmpIdle /\ ReorgIdle /\ PgIdle /\ BndIdle

MemNext ==
    \/ \E k \in MemKeys, v \in MemValues : Put(MaxOps, k, v)
    \/ \E k \in MemKeys : Delete(MaxOps, k)
    \/ \E k \in MemKeys : Get(k)
    \/ SeekToFirst
    \/ Next

Spec == Init /\ [][MemNext]_vars

\* The MemTable under more inserts than the sequence counter can count.
WrapNext ==
    \/ \E k \in MemKeys, v \in MemValues : Put(WrapOps, k, v)
    \/ \E k \in MemKeys : Delete(WrapOps, k)

SpecWrap == Init /\ [][WrapNext]_vars

\* The comparator applied to three arbitrary records.
InitCmp == MemInit /\ CmpInit /\ ReorgIdle /\ PgIdle /\ BndIdle
CmpNext == Compare

SpecCmp == InitCmp /\ [][CmpNext]_vars

\* One chain under repeated calls of ReorganizeOverflowChain.
InitReorg == MemInit /\ CmpIdle /\ ReorgInit(TRUE) /\ PgIdle /\ BndIdle

ReorgNext ==
    \/ \E pct \in FillPcts : Call(pct)
    \/ FixOverflowChain
    \/ ReturnTrivial
    \/ ReturnTooLong
    \/ Plan
    \/ PlanAbort
    \/ CommitWrite
    \/ CommitInsert
    \/ CommitUnfix
    \/ Surplus
    \/ ReturnOK

SpecReorg == InitReorg /\ [][ReorgNext]_vars

\* The same with a reader thread interleaved.
InitReaders == MemInit /\ CmpIdle /\ ReorgInit(FALSE) /\ PgIdle /\ BndIdle

ReadersNext ==
    \/ ReorgNext
    \/ \E k \in ReorgKeys : ReaderLookup(k)
    \/ ReaderFix
    \/ ReaderUnfix

SpecReaders == InitReaders /\ [][ReadersNext]_vars

\* The same with the flush worker interleaved.
InitFlush == MemInit /\ CmpIdle /\ ReorgInit(FALSE) /\ PgIdle /\ BndIdle

FlushNext ==
    \/ ReorgNext
    \/ FlushBegin
    \/ FlushFixHead
    \/ FlushFixNext
    \/ FlushRelease
    \/ FlushReinsert

SpecFlush == InitFlush /\ [][FlushNext]_vars

\* The Manager after a bulk load, under writes and RewriteSegments or
\* FlattenChain.
InitPg ==
    /\ MemInit /\ CmpIdle /\ ReorgIdle /\ BndIdle
    /\ \/ PgLoadedSegments(Datasets(MinLoad, MaxPgKey), {TRUE}, {FALSE})
       \/ PgLoadedPages(Datasets(MinLoad, MaxPgKey), {FALSE})

\* The steps of a RewriteSegments that was called.
RewriteSteps ==
    \/ RwReadSegment
    \/ RwOffer
    \/ RwChainDone
    \/ RwLeftover
    \/ RwFinish
    \/ RwInvalidate
    \/ RwErase
    \/ RwInsert
    \/ RwWait

\* The steps of a FlattenChain that was called.
FlattenSteps ==
    \/ FlInvalidate
    \/ FlErase
    \/ FlInsert
    \/ FlWait

\* MaxPgOps calls of RewriteSegments a behaviour, and their steps.
RewriteNext ==
    \/ \E k \in PgKeys : next_sequence_number_ < MaxPgOps /\ RewriteSegments(k)
    \/ RewriteSteps

\* MaxPgOps calls of FlattenChain a behaviour, and their steps.
FlattenNext ==
    \/ \E k \in PgKeys : next_sequence_number_ < MaxPgOps /\ FlattenChain(k)
    \/ FlattenSteps

PgNext ==
    \/ \E k \in PgKeys : PgPut(k)
    \/ RewriteNext
    \/ FlattenNext

SpecPg == InitPg /\ [][PgNext]_vars

\* The same over small stores, the zeroing done in place or by background
\* threads, with a reader thread interleaved.
InitPgReaders ==
    /\ MemInit /\ CmpIdle /\ ReorgIdle /\ BndIdle
    /\ \/ PgLoadedSegments(SmallDatasets, BOOLEAN, BOOLEAN)
       \/ PgLoadedPages(SmallDatasets, BOOLEAN)

PgReadersNext ==
    \/ PgNext
    \/ BgWritePage
    \/ \E k \in PgKeys : PgReaderLookup(k)
    \/ PgReaderRead
    \/ PgReaderDone

SpecPgReaders == InitPgReaders /\ [][PgReadersNext]_vars

\* Operations in a row over small stores: a later operation finds the ids
\* on the free list that an earlier one put there.
InitPgOps ==
    /\ MemInit /\ CmpIdle /\ ReorgIdle /\ BndIdle
    /\ \/ PgLoadedSegments(SmallDatasets, BOOLEAN, {FALSE})
       \/ PgLoadedPages(SmallDatasets, {FALSE})

PgOpsNext ==
    \/ \E k \in PgKeys : PgPut(k)
    \/ \E k \in PgKeys : next_sequence_number_ < MaxSmallOps /\ RewriteSegments(k)
    \/ RewriteSteps
    \/ \E k \in PgKeys : next_sequence_number_ < MaxSmallOps /\ FlattenChain(k)
    \/ FlattenSteps

SpecPgOps == InitPgOps /\ [][PgOpsNext]_vars

\* LoadIntoNewSegment over the multi-page segments a builder can hand over.
InitBoundaries ==
    /\ MemInit /\ CmpIdle /\ ReorgIdle /\ PgIdle
    /\ BndSegmentHanded

BoundariesNext ==
    \/ BndComputePageLowerBoundaries
    \/ BndLoadIntoNewSegment

SpecBoundaries == InitBoundaries /\ [][BoundariesNext]_vars

\* The fill-percentage loop of ReorganizeOverflowChain on its own: the state
\* after both length checks, for every accepted chain length and every
\* caller-supplied page_fill_pct of 1..100.
InitFill ==
    /\ MemInit /\ CmpIdle /\ PgIdle /\ BndIdle
    /\ \E len \in 2..max_reorg_fanout : \E pct \in 1..100 :
          /\ store = ChainStore(len, [k \in ReorgKeys |-> 0])
          /\ nextPageId = len + 1
          /\ fixedX = 1..len
          /\ reorg = [Idle EXCEPT !.pc = "fill", !.calls = 1, !.page_fill_pct = pct,
                                  !.fill = pct, !.chain = [i \in 1..len |-> i]]
    /\ model_ = (ChainLower :> HeadPage)
    /\ unfixLog = <<>>
    /\ pre = [store |-> store, model |-> model_, nextPageId |-> nextPageId]
    /\ reader = [pc |-> "idle", entry |-> 0, page |-> 0, after |-> FALSE]
    /\ flush = FlushIdle

\* One turn of while (dist.num_pages() > options_.max_reorg_fanout):
\* ++dist.page_fill_pct.
FillIncrement ==
    /\ reorg.pc = "fill"
    /\ RecordsPerPage(reorg.fill) # 0
    /\ NumPages(EstimatedKeys(Len(reorg.chain)), reorg.fill) > max_reorg_fanout
    /\ reorg' = [reorg EXCEPT !.fill = @ + 1]
    /\ UNCHANGED <<store, model_, nextPageId, fixedX, unfixLog, pre, reader>>
    /\ UNCHANGED nonReorgVars

\* The loop is left: records_per_page = dist.records_per_page().
FillExit ==
    /\ reorg.pc = "fill"
    /\ RecordsPerPage(reorg.fill) # 0
    /\ NumPages(EstimatedKeys(Len(reorg.chain)), reorg.fill) <= max_reorg_fanout
    /\ reorg' = [reorg EXCEPT !.pc = "filled",
                              !.records_per_page = RecordsPerPage(reorg.fill)]
    /\ UNCHANGED <<store, model_, nextPageId, fixedX, unfixLog, pre, reader>>
    /\ UNCHANGED nonReorgVars

\* dist.num_pages() with records_per_page() = 0 divides by zero, which is
\* undefined: the division traps, or it yields a number that keeps the loop
\* going, or one that ends it.
FillDivideByZero ==
    /\ reorg.pc = "fill"
    /\ RecordsPerPage(reorg.fill) = 0
    /\ \E outcome \in {"trap", "more", "fits"} :
          reorg' = CASE outcome = "trap" -> [reorg EXCEPT !.pc = "aborted"]
                     [] outcome = "more" -> [reorg EXCEPT !.fill = @ + 1]
                     [] outcome = "fits" -> [reorg EXCEPT !.pc = "filled",
                                                          !.records_per_page = 0]
    /\ UNCHANGED <<store, model_, nextPageId, fixedX, unfixLog, pre, reader>>
    /\ UNCHANGED nonReorgVars

FillNext ==
    \/ FillIncrement
    \/ FillExit
    \/ FillDivideByZero

\* The loop runs in the calling thread, which is not held up: it takes its
\* next step when it has one.
SpecFill == InitFill /\ [][FillNext]_vars /\ WF_vars(FillNext)

\* A PagePlusRecordMerger on its own: over every page chain of up to PageCap
\* records a page with keys of MergeKeys, and every batch of in-memory
\* records with keys of MergeKeys.
MergeKeys == 1..MaxMergeKey

InitMerger ==
    /\ MemInit /\ CmpIdle /\ ReorgIdle /\ BndIdle
    /\ index_ = << >>
    /\ disk = << >>
    /\ free_ = {}
    /\ nextOffset = EmptyIo.next
    /\ next_sequence_number_ = 0
    /\ options_ = [records_per_page_goal |-> PageCap, use_segments |-> TRUE,
                   consider_neighbors_during_rewrite |-> FALSE, bg_threads |-> FALSE]
    /\ bgWrites = {}
    /\ pgReader = PgReaderIdle
    /\ \E main \in SUBSET MergeKeys, overflow \in SUBSET MergeKeys, batch \in SUBSET MergeKeys :
          /\ main \cap overflow = {}
          /\ Cardinality(main) <= PageCap
          /\ Cardinality(overflow) <= PageCap
          /\ op = [OpIdle EXCEPT
                      !.pc = "merge", !.kind = "merge",
                      !.batch = RecordsOf(batch, BatchValue(0)),
                      !.pages_to_process =
                          <<IF overflow = {}
                            THEN SingleOnly([PgZeroPage EXCEPT
                                               !.recs = RecordsOf(main, LoadedValue)])
                            ELSE WithOverflow(
                                   [PgZeroPage EXCEPT !.recs = RecordsOf(main, LoadedValue)],
                                   [PgZeroPage EXCEPT !.recs = RecordsOf(overflow, LoadedValue)])>>]

\* while (pm.HasRecords()) ... pm.GetNext(): one call of GetNext.
MergerGetNext ==
    /\ op.pc = "merge"
    /\ HasRecords(ChainRecords(Head(op.pages_to_process)), op.pmi, op.batch, op.it)
    /\ \E n \in {GetNext(ChainRecords(Head(op.pages_to_process)), op.pmi,
                         op.batch, op.it)} :
          op' = [op EXCEPT !.pmi = n.pmi, !.it = n.it, !.offered = Append(@, n.r)]
    /\ UNCHANGED <<index_, disk, free_, nextOffset, next_sequence_number_, options_,
                   bgWrites, pgReader>>
    /\ UNCHANGED nonPgVars

\* HasRecords() is false: the loop over the merger is left.
MergerExhausted ==
    /\ op.pc = "merge"
    /\ ~HasRecords(ChainRecords(Head(op.pages_to_process)), op.pmi, op.batch, op.it)
    /\ op' = [op EXCEPT !.pc = "merged"]
    /\ UNCHANGED <<index_, disk, free_, nextOffset, next_sequence_number_, options_,
                   bgWrites, pgReader>>
    /\ UNCHANGED nonPgVars

MergerNext ==
    \/ MergerGetNext
    \/ MergerExhausted

SpecMerger == InitMerger /\ [][MergerNext]_vars

\* Step 1 of RewriteSegments on its own: over every index with base keys of
\* IndexKeys, every choice of the entries with an overflow, both values of
\* consider_neighbors_during_rewrite and every segment_base of the index.
IndexKeys == 1..MaxIndexKey

InitNeighbors ==
    /\ MemInit /\ CmpIdle /\ ReorgIdle /\ BndIdle
    /\ \E bases \in SUBSET IndexKeys : \E overflowing \in SUBSET bases :
          index_ = [b \in bases |->
                      [SegmentInfo(SegmentId(0, b), NoLine) EXCEPT
                          !.overflow = b \in overflowing]]
    /\ disk = << >>
    /\ free_ = {}
    /\ nextOffset = EmptyIo.next
    /\ next_sequence_number_ = 0
    /\ \E consider \in BOOLEAN :
          options_ = [records_per_page_goal |-> PageCap, use_segments |-> TRUE,
                      consider_neighbors_during_rewrite |-> consider,
                      bg_threads |-> FALSE]
    /\ op = OpIdle
    /\ bgWrites = {}
    /\ pgReader = PgReaderIdle

NeighborsNext == \E k \in IndexKeys : RewriteSegments(k)

SpecNeighbors == InitNeighbors /\ [][NeighborsNext]_vars

\* ------------------------------------------------------------ expectations
\* What the call history says, independently of the table.
Touched(k) == \E i \in 1..Len(log) : log[i].key = k
LastCall(k) ==
    log[CHOOSE i \in 1..Len(log) :
            log[i].key = k /\ \A j \in 1..Len(log) : log[j].key = k => j <= i]
TouchedKeys == {log[i].key : i \in 1..Len(log)}

\* C1: a Get of a key that was the target of at least one Put or Delete
\* returns OK with the type and the value of the most recent call on that key.
C1_GetLatestWins ==
    (getKey # NoKey /\ Touched(getKey)) =>
        /\ status = "OK"
        /\ entry_type_out = LastCall(getKey).type
        /\ value_out = LastCall(getKey).value

\* C1 witness: a Get of a key written, then another key written, then the key
\* written again with another value.
C1_Witness ==
    /\ getKey # NoKey
    /\ Len(log) = 3
    /\ log[1].key = getKey /\ log[2].key # getKey /\ log[3].key = getKey
    /\ log[1].value # log[3].value
    /\ status = "OK"
    /\ value_out = log[3].value

\* C2: a scan (SeekToFirst, then Next until !Valid()) with no write in between
\* visits every distinct key exactly once, in strictly ascending key order,
\* showing for each key the record of its most recent call (the one with the
\* greatest sequence number).
C2_ScanOnePerKey ==
    (scanAt = Len(log) /\ ~Valid(it)) =>
        /\ Len(yielded) = Cardinality(TouchedKeys)
        /\ \A i \in 1..Len(yielded) : \A j \in 1..Len(yielded) :
              i < j => SliceCompare(yielded[i].key, yielded[j].key) < 0
        /\ \A i \in 1..Len(yielded) :
              /\ yielded[i].key \in TouchedKeys
              /\ yielded[i].value = LastCall(yielded[i].key).value
              /\ yielded[i].sequence_number = LastCall(yielded[i].key).sequence_number
              /\ \A j \in 1..Len(table) : table[j].key = yielded[i].key =>
                    table[j].sequence_number <= yielded[i].sequence_number

\* C2 witness: a finished scan over two keys, one of them with two versions.
C2_Witness ==
    /\ scanAt = Len(log)
    /\ ~Valid(it)
    /\ Len(yielded) = 2
    /\ Len(table) = 3

\* C3: Get returns NotFound exactly when the key was never the target of a Put
\* or Delete, and then leaves the caller's type and value as they were; when
\* the latest call on the key is Delete it returns OK with type Delete and an
\* empty value.
C3_TombstoneNotMiss ==
    /\ [](getKey # NoKey =>
            /\ (status = "NotFound") <=> ~Touched(getKey)
            /\ (Touched(getKey) /\ LastCall(getKey).type = kDelete) =>
                  /\ status = "OK"
                  /\ entry_type_out = kDelete
                  /\ value_out = EmptyValue)
    /\ [][(getKey' # NoKey /\ status' = "NotFound") =>
             (entry_type_out' = entry_type_out /\ value_out' = value_out)]_vars

\* C3 witness: a Get of a key whose latest call is Delete and which has an
\* older Put version, after an earlier Get has filled the outputs.
C3_Witness ==
    /\ getKey # NoKey
    /\ Len(log) >= 2
    /\ log[Len(log)].key = getKey /\ log[Len(log)].type = kDelete
    /\ \E i \in 1..Len(log) - 1 : log[i].key = getKey /\ log[i].type = kWrite
    /\ status = "OK"
    /\ entry_type_out = kDelete

\* The sign of a comparison result.
Sign(x) == IF x < 0 THEN -1 ELSE IF x > 0 THEN 1 ELSE 0

\* C4: records with different keys compare by lexicographic key order whatever
\* their sequence numbers; with equal keys the record with the larger sequence
\* number is strictly less; the result is 0 only for equal key and sequence
\* number; the relation is antisymmetric and transitive.
C4_ComparatorOrder ==
    cmpRes # NoResult =>
        /\ cmpA.key # cmpB.key => Sign(cmpRes.ab) = SliceCompare(cmpA.key, cmpB.key)
        /\ (cmpA.key = cmpB.key /\ cmpA.sequence_number > cmpB.sequence_number)
              => cmpRes.ab < 0
        /\ (cmpA.key = cmpB.key /\ cmpA.sequence_number < cmpB.sequence_number)
              => cmpRes.ab > 0
        /\ cmpRes.ab = 0 <=>
              (cmpA.key = cmpB.key /\ cmpA.sequence_number = cmpB.sequence_number)
        /\ Sign(cmpRes.ba) = 0 - Sign(cmpRes.ab)
        /\ (cmpRes.ab < 0 /\ cmpRes.bc < 0) => cmpRes.ac < 0

\* C4 witness: equal keys, the first record newer than the second, the second
\* newer than the third.
C4_Witness ==
    /\ cmpRes # NoResult
    /\ cmpA.key = cmpB.key /\ cmpB.key = cmpC.key
    /\ cmpA.sequence_number > cmpB.sequence_number
    /\ cmpB.sequence_number > cmpC.sequence_number
    /\ cmpRes.ab < 0 /\ cmpRes.bc < 0 /\ cmpRes.ac < 0

\* C5: while fewer than 2^CounterBits records were inserted, the n-th inserted
\* record (0-based) carries sequence number n * 2^8 + entry type, the stamped
\* numbers are pairwise distinct and increase in insertion order, and the type
\* read back from the stored record is the type inserted.
C5_SequenceStamping ==
    Len(log) <= 2 ^ CounterBits =>
        /\ \A n \in 1..Len(log) :
              /\ log[n].sequence_number = (n - 1) * kTypeRadix + log[n].type
              /\ \E p \in 1..Len(table) :
                    /\ table[p].sequence_number = log[n].sequence_number
                    /\ table[p].key = log[n].key
                    /\ IterType(table[p]) = log[n].type
        /\ \A m \in 1..Len(log) : \A n \in 1..Len(log) :
              m < n => log[m].sequence_number < log[n].sequence_number
        /\ Len(table) = Len(log)

\* C5 witness: the last insert before the counter wraps, a Delete after Puts.
C5_Witness ==
    /\ Len(log) = 2 ^ CounterBits
    /\ log[Len(log)].type = kDelete
    /\ log[1].type = kWrite
    /\ log[Len(log)].sequence_number = (Len(log) - 1) * kTypeRadix + kDelete

\* Beyond the counter's width the stamping repeats: the statement of C5
\* without its bound on the number of calls.
C5_Unbounded ==
    \A m \in 1..Len(log) : \A n \in 1..Len(log) :
        m < n => log[m].sequence_number < log[n].sequence_number

\* ---------------------------------------------- reorganization: expectations
\* The last call of ReorganizeOverflowChain has returned.
Returned == reorg.pc = "idle" /\ reorg.ret # "none"

\* The fixed chain passed both checks (2 <= length <= max_reorg_fanout).
Accepted ==
    /\ reorg.pc \notin {"fix", "check"}
    /\ Len(reorg.chain) >= 2
    /\ Len(reorg.chain) <= max_reorg_fanout

\* Nothing but the frames' fix state differs from when the call began.
StoreAsBefore ==
    /\ store = pre.store
    /\ model_ = pre.model
    /\ nextPageId = pre.nextPageId

\* The index keys under which the current call inserted a page: the first
\* new_num_pages boundary keys.
NewIndexKeys == {reorg.boundary_keys[j] : j \in 1..reorg.new_num_pages}

\* C6: on a chain of length 1 the call returns OK, unfixes the head frame
\* once with is_dirty = false, and leaves page bytes, allocation and index as
\* they were, also when it is the second reorganization of that chain.
C6_TrivialNoOp ==
    (Returned /\ Len(reorg.chain) = 1) =>
        /\ reorg.ret = "OK"
        /\ unfixLog = <<[page |-> reorg.chain[1], is_dirty |-> FALSE]>>
        /\ StoreAsBefore
        /\ fixedX = {}

\* C6 witness: the second call on a chain the first call rebuilt into
\* several pages.
C6_Witness ==
    /\ Returned
    /\ reorg.calls = 2
    /\ Len(reorg.chain) = 1
    /\ Cardinality(DOMAIN model_) >= 2
    /\ unfixLog = <<[page |-> HeadPage, is_dirty |-> FALSE]>>

\* C7: on a chain longer than max_reorg_fanout the call returns
\* InvalidArgument, unfixes every frame of the chain exactly once with
\* is_dirty = false, and leaves index, page bytes and allocation as they were.
C7_FanoutCapRejects ==
    (Returned /\ Len(reorg.chain) > max_reorg_fanout) =>
        /\ reorg.ret = "InvalidArgument"
        /\ Len(unfixLog) = Len(reorg.chain)
        /\ \A j \in 1..Len(reorg.chain) :
              Cardinality({m \in 1..Len(unfixLog) :
                              unfixLog[m].page = reorg.chain[j]}) = 1
        /\ \A m \in 1..Len(unfixLog) : ~unfixLog[m].is_dirty
        /\ StoreAsBefore
        /\ fixedX = {}

\* C7 witness: a rejected chain of max_reorg_fanout + 1 pages holding records.
C7_Witness ==
    /\ Returned
    /\ reorg.ret = "InvalidArgument"
    /\ Len(reorg.chain) = max_reorg_fanout + 1
    /\ Len(store[HeadPage].recs) > 0
    /\ Len(unfixLog) = max_reorg_fanout + 1

\* C8: for an accepted chain the number of pages planned, committed and
\* inserted into the index is ceil(record_count / records_per_page) with the
\* adjusted fill percentage, and at most max_reorg_fanout.
C8_FanoutBound ==
    Accepted =>
        /\ reorg.new_num_pages <= max_reorg_fanout
        /\ reorg.new_num_pages * reorg.records_per_page >= reorg.record_count
        /\ reorg.record_count > 0 =>
              (reorg.new_num_pages - 1) * reorg.records_per_page < reorg.record_count
        /\ reorg.record_count = 0 => reorg.new_num_pages = 0
        /\ Returned =>
              /\ Cardinality({m \in 1..Len(unfixLog) :
                     unfixLog[m].is_dirty /\ ~store[unfixLog[m].page].zero})
                   = reorg.new_num_pages
              /\ \A b \in NewIndexKeys : b \in DOMAIN model_
              /\ Cardinality(NewIndexKeys) = reorg.new_num_pages

\* C8 witness: a finished reorganization that raised the fill percentage and
\* produced max_reorg_fanout pages, more than the chain had.
C8_Witness ==
    /\ Returned
    /\ Accepted
    /\ reorg.fill > reorg.page_fill_pct
    /\ reorg.new_num_pages = max_reorg_fanout
    /\ reorg.new_num_pages > Len(reorg.chain)

\* C9: after a successful reorganization the i-th record (0-based) of the
\* merge order of the original chain is the (i mod records_per_page)-th record
\* of the page the index maps boundary floor(i / records_per_page) to, and
\* those pages hold no other record: nothing is dropped, duplicated or altered.
C9_RecordsPreserved ==
    (Returned /\ Accepted) =>
        LET merged == MergeOrder(pre.store, reorg.chain)
            rpp == reorg.records_per_page
            pageOf(j) == store[model_[reorg.boundary_keys[j]]]
        IN /\ reorg.ret = "OK"
           /\ \A i \in 0..(Len(merged) - 1) :
                 /\ (i \div rpp) + 1 <= reorg.new_num_pages
                 /\ Len(pageOf((i \div rpp) + 1).recs) >= (i % rpp) + 1
                 /\ pageOf((i \div rpp) + 1).recs[(i % rpp) + 1] = merged[i + 1]
           /\ \A j \in 1..reorg.new_num_pages :
                 \A x \in 1..Len(pageOf(j).recs) :
                    merged[(j - 1) * rpp + x] = pageOf(j).recs[x]
           /\ \A j \in 1..reorg.new_num_pages : \A l \in 1..reorg.new_num_pages :
                 j # l => model_[reorg.boundary_keys[j]] # model_[reorg.boundary_keys[l]]

\* C9 witness: a successful reorganization of a chain whose pages interleave
\* in key order, into several pages holding every key.
C9_Witness ==
    /\ Returned
    /\ Accepted
    /\ reorg.record_count = MaxKey
    /\ reorg.new_num_pages >= 2
    /\ \E a \in 1..Len(pre.store[1].recs) : \E b \in 1..Len(pre.store[2].recs) :
          pre.store[1].recs[a][1] > pre.store[2].recs[b][1]

\* The plan of the current call is made.
PlanKnown == Accepted /\ reorg.pc # "aborted"

\* The bytes a page reached through index entry b holds once the current
\* call is over.
FinalBytes(b, p) ==
    IF PlanKnown /\ b \in NewIndexKeys
    THEN reorg.pages[CHOOSE j \in 1..reorg.new_num_pages : reorg.boundary_keys[j] = b]
    ELSE IF PlanKnown /\ p \in {reorg.chain[j] : j \in 1..Len(reorg.chain)}
    THEN ZeroPage
    ELSE pre.store[p]

\* C10: the new pages are written, inserted and unfixed in descending page
\* index, new_num_pages of them, each frame held exclusively until its bytes
\* are copied and its index entry inserted; every page the index leads to and
\* the reorganization does not hold, and every page a reader fixed after the
\* reorganization took the chain head, holds its final bytes; the chain head
\* is held until every higher-indexed new page is committed and unfixed.
C10_BackwardCommit ==
    /\ PlanKnown =>
          /\ \A m \in 1..Len(unfixLog) : m <= reorg.new_num_pages =>
                /\ unfixLog[m].is_dirty
                /\ store[unfixLog[m].page] = reorg.pages[reorg.new_num_pages - m + 1]
                /\ model_[reorg.boundary_keys[reorg.new_num_pages - m + 1]]
                      = unfixLog[m].page
          /\ Returned => Len(unfixLog) >= reorg.new_num_pages
          /\ reorg.chain[1] \notin fixedX =>
                \A j \in 2..reorg.new_num_pages :
                   /\ reorg.boundary_keys[j] \in DOMAIN model_
                   /\ model_[reorg.boundary_keys[j]] \notin fixedX
                   /\ store[model_[reorg.boundary_keys[j]]] = reorg.pages[j]
    /\ reorg.chain # <<>> =>
          \A b \in DOMAIN model_ :
             model_[b] \notin fixedX => store[model_[b]] = FinalBytes(b, model_[b])
    /\ (reader.pc = "fixed" /\ reader.after) =>
          /\ reader.page \notin fixedX
          /\ store[reader.page] = FinalBytes(reader.entry, reader.page)

\* C10 witness: while the head is still held, a reader holds a newly
\* allocated page that the reorganization committed.
C10_Witness ==
    /\ reader.pc = "fixed"
    /\ reader.after
    /\ reorg.pc = "commit_write"
    /\ reorg.chain[1] \in fixedX
    /\ reader.page >= pre.nextPageId
    /\ reader.entry > ChainLower


\* ---------------------------------------------------------------- C11
\* The flush worker's FixOverflowChain has got past its FixPage on the head.
FlushPastHead == flush.pc \notin {"idle", "fix_head"}

\* The reorganization that held the head when the flush worker asked for the
\* chain is still the last one called, and no boundary of it was in the model
\* when the flush worker read the number of model pages.
FlushWaitedForWholeReorg ==
    /\ FlushPastHead
    /\ flush.behind
    /\ flush.call = reorg.calls
    /\ reorg.chain # <<>>
    /\ flush.pages_before = GetNumPages(pre.model)

RewriteReturned == op.pc = "idle" /\ op.kind = "rewrite"
FlattenReturned == op.pc = "idle" /\ op.kind = "flatten"

\* The records of a segment on a disk, page after page, every page followed
\* by its overflow.
RECURSIVE PagesRecords(_, _, _)
PagesRecords(d, pages, i) ==
    IF i > Len(pages) THEN <<>>
    ELSE pages[i].recs
         \o (IF pages[i].overflow # NoId THEN d[pages[i].overflow][1].recs ELSE <<>>)
         \o PagesRecords(d, pages, i + 1)
SegmentRecords(d, id) == PagesRecords(d, d[id], 1)

\* The records an index leads to on a disk for the base keys of a sequence of
\* pairs, read in key order.
RECURSIVE RecordsUnder(_, _, _)
RecordsUnder(d, idx, bases) ==
    IF bases = {} THEN <<>>
    ELSE LET b == CHOOSE x \in bases : \A y \in bases : x <= y
         IN (IF b \in DOMAIN idx THEN SegmentRecords(d, idx[b].id) ELSE <<>>)
            \o RecordsUnder(d, idx, bases \ {b})
PairKeys(pairs) == {pairs[j][1] : j \in 1..Len(pairs)}

\* The newest-wins merge of records on disk with a batch, in key order.
NewestWins(disk_recs, batch) ==
    SortedSeq({r \in disk_recs : \A j \in 1..Len(batch) : batch[j][1] # r[1]}
              \cup Range(batch))

\* The records the operation found on the main and overflow pages of the
\* segments it rewrote.
OldRecords ==
    UNION {Range(SegmentRecords(op.pre.disk, op.segments_to_rewrite[j][2].id)) :
              j \in 1..Len(op.segments_to_rewrite)}

\* C12: after RewriteSegments the records of the new segments, read in index
\* order, are the newest-wins merge of the records of the main and overflow
\* pages of the rewritten segments with the batch: every key once, with the
\* value of the batch when the batch has the key; also when the window was
\* flushed in the middle of the rewrite.
C12_RewritePreservesRecords ==
    RewriteReturned =>
        /\ op.asserts
        /\ RecordsUnder(disk, index_, PairKeys(op.rewritten_segments))
               = NewestWins(OldRecords, op.batch)

\* A rewrite of several segments with overflows returned, the window was
\* flushed on the way and the batch replaced a record of the disk.
C12_Witness ==
    /\ RewriteReturned
    /\ op.flushes > 0
    /\ Len(op.segments_to_rewrite) >= 2
    /\ op.overflows_to_clear # <<>>
    /\ \E r \in OldRecords : op.batch = <<<<r[1], BatchValue(op.sequence_number)>>>>

\* C13: after FlattenChain on a single-page segment, with or without an
\* overflow, the records of the resulting pages, read in index order, are the
\* union in key order of the main page, the overflow and the batch, one record
\* a key, the record of the batch standing for the record of the disk.
C13_FlattenNewestWins ==
    FlattenReturned =>
        /\ Len(op.segments_to_rewrite) = 1
        /\ PageCountOf(op.segments_to_rewrite[1][2].id) = 1
        /\ op.base \in PairKeys(op.rewritten_segments)
        /\ RecordsUnder(disk, index_, PairKeys(op.rewritten_segments))
               = NewestWins(OldRecords, op.batch)

\* A chain with an overflow was flattened with a batch of two records, one
\* replacing a record of the disk and one new and above the others.
C13_Witness ==
    /\ FlattenReturned
    /\ op.overflows_to_clear # <<>>
    /\ Len(op.batch) = 2
    /\ \E r \in OldRecords : r[1] = op.batch[1][1]
    /\ \A r \in OldRecords : r[1] < op.batch[2][1]
    /\ Len(op.rewritten_segments) >= 2

\* The ids of the segments of the rewrite set and of the overflow pages of
\* their pages, as the index and the disk had them when the operation began.
SupersededIds ==
    LET olds == {op.pre.index[k].id : k \in PairKeys(op.segments_to_rewrite)}
    IN olds \cup
       (UNION {{op.pre.disk[id][i].overflow : i \in 1..Len(op.pre.disk[id])} :
                  id \in olds} \ {NoId})

\* C14: after RewriteSegments or FlattenChain returns, every old segment of
\* the rewrite set and every overflow page read from them has its first page
\* zeroed and its id in the free list, and no entry of the index has one of
\* those ids.
C14_NoEntryToInvalidated ==
    (RewriteReturned \/ FlattenReturned) =>
        /\ bgWrites = {}
        /\ \A id \in SupersededIds :
              /\ disk[id][1] = PgZeroPage
              /\ id \in free_
              /\ \A b \in DOMAIN index_ : index_[b].id # id

\* An operation that left the zeroing to the background threads returned,
\* having superseded a segment and the overflow of its page.
C14_Witness ==
    /\ RewriteReturned \/ FlattenReturned
    /\ options_.bg_threads
    /\ Cardinality(SupersededIds) >= 2
    /\ op.overflows_to_clear # <<>>


KeyRangeInvariant(idx, d) ==
    \A b \in DOMAIN idx :
        LET above == {c \in DOMAIN idx : c > b}
            next_base == IF above = {} THEN KeyMax ELSE MinOfKeys(above)
            pages == d[idx[b].id]
        IN /\ \A r \in Range(SegmentRecords(d, idx[b].id)) :
                 b <= r[1] /\ r[1] < next_base
           /\ pages[1].lower = b
           /\ \A i \in 1..Len(pages) :
                 /\ b <= pages[i].lower
                 /\ pages[i].upper < next_base
                 /\ \A r \in Range(pages[i].recs) :
                       pages[i].lower <= r[1] /\ r[1] <= pages[i].upper

\* C16: after RewriteSegments or FlattenChain the index key-range invariant
\* (I2) holds for every pair of adjacent index entries, the last new segment
\* and the first untouched segment to its right included, and the index keys
\* the operation inserted are pairwise distinct and strictly increasing.
C16_KeyRangeKept ==
    (RewriteReturned \/ FlattenReturned) =>
        /\ KeyRangeInvariant(index_, disk)
        /\ \A i, j \in 1..Len(op.rewritten_segments) :
              i < j => op.rewritten_segments[i][1] < op.rewritten_segments[j][1]
C16_Witness ==
    /\ RewriteReturned
    /\ Len(op.rewritten_segments) >= 2
    /\ LET last_old == MaxOfKeys(PairKeys(op.segments_to_rewrite))
           next_base == MinOfKeys({c \in DOMAIN op.pre.index \cup {KeyMax} : c > last_old})
       IN /\ next_base \in DOMAIN index_
          /\ \E j \in 1..Len(op.batch) : op.batch[j][1] = next_base - 1
          /\ \A r \in OldRecords : r[1] # next_base - 1

\* C17: after every top-level operation (bulk load, RewriteSegments,
\* FlattenChain) the index and the storage agree: for every index entry the
\* first page of its segment on disk has the key of the entry as its lower
\* boundary and a checksum that is set, and every superseded id is in the
\* free list.
C17_IndexStorageAgree ==
    (op.pc = "idle" /\ op.puts = 0) =>
        /\ \A b \in DOMAIN index_ :
              /\ disk[index_[b].id][1].lower = b
              /\ disk[index_[b].id][1].checksum
        /\ SupersededIds \subseteq free_

\* C18: for every multi-page segment of the builder ComputePageLowerBoundaries
\* returns page_count keys, the first one the base key, strictly increasing,
\* the key of each page from the second on the smallest key that PageForKey
\* sends to the page; neither of the asserts on the key found nor the assert
\* lower < upper fails (and no cast is undefined).
C18_BoundariesMonotone ==
    bnd.pc \in {"bounds", "aborted", "loaded"} =>
        LET seg == bnd.seg
            lb == bnd.lower_boundaries
        IN /\ BoundariesSound(seg)
           /\ bnd.pc # "aborted"
           /\ Len(lb) = seg.page_count
           /\ lb[1] = seg.base_key
           /\ \A i \in 1..(Len(lb) - 1) : lb[i] < lb[i + 1]
           /\ \A i \in 2..Len(lb) :
                 /\ PageForKey(seg.base_key, seg.model, seg.page_count, lb[i]) = i - 1
                 /\ \A k \in seg.base_key..(lb[i] - 1) :
                       PageForKey(seg.base_key, seg.model, seg.page_count, k) < i - 1

\* The records of the pages of a buffer, page after page.
RECURSIVE BufferRecords(_, _)
BufferRecords(pages, i) ==
    IF i > Len(pages) THEN <<>>
    ELSE pages[i].recs \o BufferRecords(pages, i + 1)

C20_ReaderConsistent ==
    pgReader.pc = "read" =>
        /\ pgReader.seen # PgZeroPage
        /\ pgReader.seen.seq >= pgReader.seq
        /\ ~(pgReader.live /\ (pgReader.freed \/ pgReader.seen = PgZeroPage))

\* C21: every zeroing write that RewriteSegments or FlattenChain submitted to
\* the background threads has run when the operation returns, and from the
\* first submission to the join of the last future the page at zero that the
\* writes share is not modified: it holds zeros.
C21_BackgroundWritesJoined ==
    /\ [](op.pc = "idle" => bgWrites = {})
    /\ [][bgWrites # {} => (op.buffer[1] = PgZeroPage /\ op'.buffer[1] = PgZeroPage)]_vars
    /\ [][bgWrites' # {} => op'.buffer[1] = PgZeroPage]_vars
C21_Witness ==
    /\ FlattenReturned
    /\ options_.bg_threads
    /\ Len(op.overflows_to_clear) = 1
    /\ op.batch # <<>>
    /\ \A id \in SupersededIds : disk[id][1] = PgZeroPage

\* ---------------------------------------------------------------- C22
\* The plan of the current call is made and the call went on past it.
PlanMade == Accepted /\ reorg.pc \notin {"plan", "aborted"}

\* The boundary keys of the current call are the chain's lower boundary, the
\* key of every records_per_page-th record of the merge order, and the chain's
\* upper boundary: one more than there are new pages.
BoundaryPlanHolds ==
    LET merged == MergeOrder(pre.store, reorg.chain)
        bk == reorg.boundary_keys
        n == reorg.new_num_pages
    IN /\ Len(bk) = n + 1
       /\ bk[1] = ChainLower
       /\ bk[Len(bk)] = ChainUpper
       /\ \A i \in 1..(n - 1) :
             bk[i + 1] = merged[i * reorg.records_per_page + 1][1]

\* C22: for every accepted chain the first pass leaves new_num_pages + 1
\* boundary keys: the first is the chain's lower boundary, the last its upper
\* boundary, and boundary i (1 <= i < new_num_pages) is the key of the record
\* at 0-based position i * records_per_page of the merge order, whatever the
\* record count (an exact multiple of records_per_page, or zero).
C22_BoundaryPlanning == PlanMade => BoundaryPlanHolds

\* The boundary plan of every accepted chain that holds a record.
BoundaryPlanOfRecords == (PlanMade /\ reorg.record_count > 0) => BoundaryPlanHolds

\* ---------------------------------------------------------------- C23
\* C23: for every accepted chain and every page_fill_pct of 1..100 the loop
\* that raises the fill percentage while num_pages() > max_reorg_fanout comes
\* to its end, and ends with a fill percentage of at most 100 and at least one
\* record per page.
C23_FillTerminates ==
    /\ <>(reorg.pc = "filled")
    /\ [](reorg.pc = "filled" => (reorg.fill <= 100 /\ reorg.records_per_page >= 1))

\* The caller's fill percentage gives a page at least one record.
FillTakesRecord == (reorg.page_fill_pct * MaxPerPage) \div 100 >= 1

\* The loop ended as AdjustFill computes it, within 100 percent.
FillAsAdjusted ==
    /\ reorg.fill <= 100
    /\ reorg.records_per_page >= 1
    /\ reorg.fill = AdjustFill(EstimatedKeys(Len(reorg.chain)), reorg.page_fill_pct)

\* The loop is over, or was entered with a percentage of no record.
FillOverOrNoRecord == reorg.pc = "filled" \/ ~FillTakesRecord
\* The loop comes to its end, as AdjustFill computes it, for the fill
\* percentages at which a page takes a record.
FillTerminatesWithRecords ==
    /\ <>FillOverOrNoRecord
    /\ []((reorg.pc = "filled" /\ FillTakesRecord) => FillAsAdjusted)

\* ---------------------------------------------------------------- C24
\* C24: in the second pass every record finds its page floor(i /
\* records_per_page) with room left (the page holds i mod records_per_page
\* records, fewer than fit), so Put never returns Full and stores the record
\* where the plan wants it; the pages committed to the index are those pages,
\* with every record of the chain.
C24_NoPutFull ==
    PlanMade =>
        LET merged == MergeOrder(pre.store, reorg.chain)
            rpp == reorg.records_per_page
            n == reorg.new_num_pages
        IN /\ \A i \in 0..(Len(merged) - 1) :
                 /\ (i \div rpp) + 1 <= n
                 /\ i % rpp < MaxPerPage
                 /\ Len(reorg.pages[(i \div rpp) + 1].recs) > i % rpp
                 /\ reorg.pages[(i \div rpp) + 1].recs[(i % rpp) + 1] = merged[i + 1]
           /\ Returned =>
                 \A i \in 0..(Len(merged) - 1) :
                    \E x \in 1..Len(store[model_[reorg.boundary_keys[(i \div rpp) + 1]]].recs) :
                       store[model_[reorg.boundary_keys[(i \div rpp) + 1]]].recs[x]
                          = merged[i + 1]

\* C24 witness: a finished reorganization at 100 percent whose first page
\* took as many records as fit and whose last page took the rest.
C24_Witness ==
    /\ Returned
    /\ Accepted
    /\ reorg.records_per_page = MaxPerPage
    /\ reorg.record_count = MaxKey
    /\ Len(reorg.pages[1].recs) = MaxPerPage
    /\ Len(reorg.pages[reorg.new_num_pages].recs) = MaxKey - MaxPerPage

\* ---------------------------------------------------------------- C25
\* The frames the current call fixed: the links of the chain and the pages
\* it allocated.
FramesOfCall ==
    {reorg.chain[j] : j \in 1..Len(reorg.chain)} \cup (pre.nextPageId..(nextPageId - 1))

\* The UnfixPage calls of the current call on a frame.
UnfixCount(f) == Cardinality({m \in 1..Len(unfixLog) : unfixLog[m].page = f})

\* C25: a frame the call fixed is held or was unfixed, never both and never
\* unfixed twice, and when the call returns (from the early return on a chain
\* of length 1, from the error on a chain that is too long, or from the end,
\* with more, as many or fewer pages than before) every frame of the chain
\* and every frame of a new page was unfixed exactly once and none is held.
C25_FixUnfixPaired ==
    /\ \A m \in 1..Len(unfixLog) :
          /\ unfixLog[m].page \in FramesOfCall
          /\ unfixLog[m].page \notin fixedX
          /\ UnfixCount(unfixLog[m].page) = 1
    /\ Returned =>
          /\ fixedX = {}
          /\ \A f \in FramesOfCall : UnfixCount(f) = 1

\* C25 witness: a call returned that reused the frames of the chain and
\* fixed the frame of a page it allocated.
C25_Witness ==
    /\ Returned
    /\ Accepted
    /\ reorg.new_num_pages > Len(reorg.chain)
    /\ nextPageId > pre.nextPageId
    /\ Len(unfixLog) = reorg.new_num_pages

\* The other ways out: the early return, the error, as many pages as before,
\* and fewer.
ReturnedTrivially == Returned /\ Len(reorg.chain) = 1 /\ Len(unfixLog) = 1
ReturnedTooLong == Returned /\ reorg.ret = "InvalidArgument" /\ Len(unfixLog) = Len(reorg.chain)
ReturnedSameLength == Returned /\ Accepted /\ reorg.new_num_pages = Len(reorg.chain)
ReturnedShorter == Returned /\ Accepted /\ reorg.new_num_pages < Len(reorg.chain)

\* ---------------------------------------------------------------- C26
\* The surplus frames, and only they, are zeroed and unfixed dirty; the call
\* returned OK; no index entry leads to a zeroed page.
SurplusZeroed ==
    /\ reorg.ret = "OK"
    /\ \A j \in 1..Len(reorg.chain) :
          /\ store[reorg.chain[j]].zero <=> j > reorg.new_num_pages
          /\ j > reorg.new_num_pages =>
                \E m \in 1..Len(unfixLog) :
                   unfixLog[m] = [page |-> reorg.chain[j], is_dirty |-> TRUE]
    /\ \A p \in pre.nextPageId..(nextPageId - 1) : ~store[p].zero
    /\ \A b \in DOMAIN model_ : ~store[model_[b]].zero
    /\ reorg.new_num_pages >= 1 => store[model_[ChainLower]] = reorg.pages[1]

\* C26: a reorganization that ends with fewer pages than the chain had
\* (new_num_pages anywhere in 0..old_num_pages - 1) zeroes and unfixes dirty
\* exactly the frames chain[new_num_pages .. old_num_pages - 1], returns OK,
\* and leaves no index entry that leads to a zeroed page.
C26_ShrinkZeroesSurplus ==
    (Returned /\ Accepted /\ reorg.new_num_pages < Len(reorg.chain)) => SurplusZeroed

\* The same for the reorganizations that end with at least one page.
ShrinkToSomePages ==
    (Returned /\ Accepted /\ reorg.new_num_pages < Len(reorg.chain)
              /\ reorg.new_num_pages >= 1) => SurplusZeroed

\* ---------------------------------------------------------------- C27
\* The records of a sequence are in strictly ascending key order.
StrictlyAscending(recs) == \A i \in 1..(Len(recs) - 1) : recs[i][1] < recs[i + 1][1]

\* The keys of the records of a sequence.
KeysOf(recs) == {recs[i][1] : i \in 1..Len(recs)}

\* The page records of the merger on its own.
MergerPageRecs == ChainRecords(Head(op.pages_to_process))

\* What the merger returned so far: the in-memory records it passed and the
\* page records it passed whose key no in-memory record has.
MergedSoFar ==
    /\ StrictlyAscending(op.offered)
    /\ Range(op.offered) =
          Range(SubSeq(op.batch, 1, op.it)) \cup
          {p \in Range(SubSeq(MergerPageRecs, 1, op.pmi)) : p[1] \notin KeysOf(op.batch)}
    /\ HasRecords(MergerPageRecs, op.pmi, op.batch, op.it)
          <=> ~(op.pmi = Len(MergerPageRecs) /\ op.it = Len(op.batch))
    /\ op.pc = "merged" =>
          /\ KeysOf(op.offered) = KeysOf(MergerPageRecs) \cup KeysOf(op.batch)
          /\ Len(op.offered) = Cardinality(KeysOf(MergerPageRecs) \cup KeysOf(op.batch))

\* A GetNext with both cursors at the same key returns the in-memory record
\* and moves both cursors on.
EqualKeysStep ==
    (/\ op.pmi < Len(MergerPageRecs)
     /\ op.it < Len(op.batch)
     /\ MergerPageRecs[op.pmi + 1][1] = op.batch[op.it + 1][1]) =>
        /\ op'.offered = Append(op.offered, op.batch[op.it + 1])
        /\ op'.pmi = op.pmi + 1
        /\ op'.it = op.it + 1

\* C27: PagePlusRecordMerger merges a strictly ascending page stream and a
\* strictly ascending in-memory stream newest-wins: GetNext returns records
\* in strictly ascending key order; on equal keys it returns the in-memory
\* record and advances both cursors, so the page record is never returned;
\* every key of either stream is returned exactly once; HasRecords() is false
\* exactly when both streams are exhausted.
C27_NewestWinsMerge ==
    /\ [](op.kind = "merge" => MergedSoFar)
    /\ [][op.kind = "merge" => EqualKeysStep]_vars

\* C27 witness: a merger is exhausted that met a key both streams hold, over
\* a page chain with an overflow and with keys of each stream the other one
\* does not hold.
C27_Witness ==
    /\ op.pc = "merged"
    /\ Head(op.pages_to_process).has_overflow
    /\ KeysOf(MergerPageRecs) \cap KeysOf(op.batch) # {}
    /\ KeysOf(MergerPageRecs) \ KeysOf(op.batch) # {}
    /\ KeysOf(op.batch) \ KeysOf(MergerPageRecs) # {}
    /\ Len(op.offered) = MaxMergeKey

\* ---------------------------------------------------------------- C28
\* The records handed to seg_builder.Offer so far are in strictly ascending
\* key order, and the in-memory records among them are those the cursor
\* passed, each handed over once.
OfferedInOrder ==
    /\ StrictlyAscending(op.offered)
    /\ \A j \in 1..Len(op.batch) :
          Cardinality({i \in 1..Len(op.offered) : op.offered[i] = op.batch[j]})
             = IF j <= op.it THEN 1 ELSE 0
    /\ op.pc \notin {"segment", "process", "leftover"} => op.it = Len(op.batch)

\* C28: over one RewriteSegments call the records handed to seg_builder.Offer,
\* across the page chains of every segment of the rewrite set and the final
\* drain of the in-memory records, are in strictly ascending key order; the
\* in-memory cursor moves only when a record is handed over (a step to the
\* next page chain or segment leaves it where it is), so every in-memory
\* record is offered exactly once.
C28_OfferInKeyOrder ==
    /\ [](op.kind = "rewrite" => OfferedInOrder)
    /\ [][(op.kind = "rewrite" /\ op'.kind = "rewrite" /\ op'.offered = op.offered)
             => op'.it = op.it]_vars

\* C28 witness: a rewrite of two segments returned that offered records of
\* both, in-memory records between them, and a last in-memory record in the
\* final drain.
C28_Witness ==
    /\ RewriteReturned
    /\ Len(op.segments_to_rewrite) >= 2
    /\ Len(op.batch) = MaxBatch
    /\ op.offered[Len(op.offered)] = op.batch[Len(op.batch)]
    /\ \A r \in OldRecords : r[1] < op.batch[Len(op.batch)][1]
    /\ op.offered[1] # op.batch[1]
    /\ \E i \in 1..Len(op.offered) : op.offered[i] = op.batch[1]

\* ---------------------------------------------------------------- C29
\* The base keys of segments_to_rewrite.
RewriteSetKeys == {op.segments_to_rewrite[j][1] : j \in 1..Len(op.segments_to_rewrite)}

\* segments_to_rewrite is a run of neighbouring index entries around the one
\* at segment_base, all but that one with an overflow, that no overflowing
\* neighbour continues on either side; it is sorted by base key.
MaximalOverflowRun ==
    LET idx == op.pre.index
        S == RewriteSetKeys
    IN /\ op.base \in S
       /\ S \subseteq DOMAIN idx
       /\ \A a \in S, c \in S : \A b \in DOMAIN idx : (a < b /\ b < c) => b \in S
       /\ \A b \in S \ {op.base} : idx[b].overflow
       /\ \A b \in DOMAIN idx :
             (b < MinOfKeys(S) /\ ~\E c \in DOMAIN idx : b < c /\ c < MinOfKeys(S))
                => ~idx[b].overflow
       /\ \A b \in DOMAIN idx :
             (b > MaxOfKeys(S) /\ ~\E c \in DOMAIN idx : MaxOfKeys(S) < c /\ c < b)
                => ~idx[b].overflow
       /\ \A j \in 1..Len(op.segments_to_rewrite) :
             /\ op.segments_to_rewrite[j][2] = idx[op.segments_to_rewrite[j][1]]
             /\ j > 1 => op.segments_to_rewrite[j - 1][1] < op.segments_to_rewrite[j][1]

\* C29: with consider_neighbors_during_rewrite the rewrite set is the longest
\* run of neighbouring index entries that holds the entry of segment_base and
\* whose other entries all have an overflow (it stops at the first neighbour
\* without an overflow on each side and at the ends of the index), sorted by
\* base key without repeats; without the option it is the entry of
\* segment_base alone.
C29_RewriteSet ==
    op.kind = "rewrite" =>
        IF options_.consider_neighbors_during_rewrite
        THEN MaximalOverflowRun
        ELSE op.segments_to_rewrite = <<<<op.base, op.pre.index[op.base]>>>>

\* C29 witness: a rewrite with the option took overflowing neighbours of both
\* sides into the set, stopped on one side at a neighbour without an overflow
\* that has an overflowing entry behind it, and on the other side at the end
\* of the index.
C29_Witness ==
    /\ op.kind = "rewrite"
    /\ options_.consider_neighbors_during_rewrite
    /\ \E a \in RewriteSetKeys, c \in RewriteSetKeys : a < op.base /\ op.base < c
    /\ MaxOfKeys(RewriteSetKeys) = MaxOfKeys(DOMAIN op.pre.index)
    /\ \E b \in DOMAIN op.pre.index \ RewriteSetKeys : op.pre.index[b].overflow

\* A rewrite without the option, of a segment with an overflowing neighbour.
RewriteAloneBesideOverflow ==
    /\ op.kind = "rewrite"
    /\ ~options_.consider_neighbors_during_rewrite
    /\ \E b \in DOMAIN op.pre.index : b # op.base /\ op.pre.index[b].overflow

\* ---------------------------------------------------------------- C30
\* The slots of the chains of a deque, in the order of the deque.
RECURSIVE SlotsOf(_)
SlotsOf(chains) ==
    IF chains = <<>> THEN <<>>
    ELSE <<Head(chains).main_slot>>
            \o (IF Head(chains).has_overflow THEN <<Head(chains).overflow_slot>> ELSE <<>>)
            \o SlotsOf(Tail(chains))

\* The slots handed out and not freed, oldest first, are those of the chains
\* of pages_processed followed by those of pages_to_process.
WindowInOrder ==
    SlotsOf(op.pages_processed) \o SlotsOf(op.pages_to_process)
       = [i \in 1..(kWindowPages - op.page_buf.free) |->
             (op.page_buf.tail + i - 1) % kWindowPages]

\* C30: during RewriteSegments the free slots of the CircularPageBuffer and
\* the pages of the chains of pages_to_process and pages_processed add up to
\* the size of the window; Allocate is never called without a free slot;
\* every Free releases a slot of the chain at the front of pages_processed,
\* the oldest slot handed out; after each flush the segment about to be read
\* fits the free slots, with its overflows (the asserts after the flushes
\* hold).
C30_WindowAccounting ==
    op.kind = "rewrite" =>
        /\ op.page_buf.free + ChainSlots(op.pages_to_process)
              + ChainSlots(op.pages_processed) = kWindowPages
        /\ op.page_buf.free >= 0
        /\ op.alloc_ok
        /\ op.free_ok
        /\ WindowInOrder
        /\ op.asserts

\* C30 witness: a rewrite flushed the window for want of room, read the next
\* segment into slots that had been freed, and holds a chain with an overflow
\* whose slots go around the end of the ring.
C30_Witness ==
    /\ op.kind = "rewrite"
    /\ op.flushes >= 1
    /\ op.pages_to_process # <<>>
    /\ \E j \in 1..Len(op.pages_to_process) :
          /\ op.pages_to_process[j].has_overflow
          /\ op.pages_to_process[j].overflow_slot < op.pages_to_process[j].main_slot

\* The keys of the records of a chain of the window.
ChainKeys(pc) == KeysOf(ChainRecords(pc))

\* The keys of the records of the segments the rewrite has written so far.
WrittenKeys ==
    UNION {KeysOf(SegmentRecords(disk, op.rewritten_segments[j][2].id)) :
              j \in 1..Len(op.rewritten_segments)}

\* The slots of the CircularPageBuffer handed out and not freed.
OutstandingSlots(buf) ==
    {(buf.tail + j) % kWindowPages : j \in 0..(kWindowPages - buf.free - 1)}

\* The rewrite is at the head of the loop over segments_to_rewrite and the
\* segment it reads next, with its overflows, does not fit the free slots.
FlushDue ==
    /\ op.kind = "rewrite"
    /\ op.pc = "segment"
    /\ LET pages == disk[op.segments_to_rewrite[op.seg_i][2].id]
       IN Len(pages) + Len(OverflowsOf(pages)) > NumFreePages(op)

\* The chains a step of a rewrite pops from pages_processed are written out:
\* every key of theirs is in a new segment on disk after the step and the
\* builder holds none of them.
FreedChainsWritten ==
    (op.kind = "rewrite" /\ op'.kind = "rewrite") =>
        \A j \in (Len(op.freed) + 1)..Len(op'.freed) :
            /\ ChainKeys(op'.freed[j]) \subseteq WrittenKeys'
            /\ ChainKeys(op'.freed[j]) \cap KeysOf(op'.pending) = {}

\* The chain the merger reads holds its slots, and a flush for lack of room
\* finds records in the builder.
ConsumedChainHeld ==
    op.kind = "rewrite" =>
        /\ (op.pc = "process" /\ op.pages_to_process # <<>>) =>
              ChainSlotSet(Head(op.pages_to_process))
                 \subseteq OutstandingSlots(op.page_buf)
        /\ FlushDue =>
              \A split \in BOOLEAN :
                 Finish(op.pending, options_.records_per_page_goal, split).segments # <<>>
        /\ op.asserts

\* C31: a page chain leaves the window only when it is no longer needed:
\* when load_into_segments_and_free_pages frees a processed chain, every
\* record of the chain is in a new segment on disk and none of them is still
\* buffered in the SegmentBuilder; the chain the merger is reading holds its
\* slots; and when the window is too full for the next segment, Finish()
\* returns at least one segment (the asserts segments.size() > 0 hold).
C31_ReleasedWhenWritten ==
    /\ []ConsumedChainHeld
    /\ [][FreedChainsWritten]_vars

\* The builder returned segments and held on to a record of a processed
\* chain: chains with records were freed, the chain of that record was left
\* in the window, and the merger is in the middle of the chain it reads.
C31_Witness ==
    /\ op.kind = "rewrite"
    /\ op.pc = "process"
    /\ op.held
    /\ \E j \in 1..Len(op.freed) : ChainKeys(op.freed[j]) # {}
    /\ \E j \in 1..Len(op.pages_processed) :
          ChainKeys(op.pages_processed[j]) \cap KeysOf(op.pending) # {}
    /\ op.pages_to_process # <<>>
    /\ op.pmi > 0

\* The window was flushed for lack of room and chains with records left it.
FlushFreedChains ==
    /\ op.kind = "rewrite"
    /\ op.flushes >= 1
    /\ \E j \in 1..Len(op.freed) : ChainKeys(op.freed[j]) # {}

\* The rewrite has not reached step 4: the index has not been touched.
BeforeIndexUpdate ==
    op.kind = "rewrite" /\ op.pc \in {"segment", "process", "leftover", "invalidate", "erase"}

\* Step 4 has begun: the old entries were erased, or the new ones inserted as
\* well.
IndexUpdateBegun == op.kind = "rewrite" /\ op.pc \in {"insert", "wait", "idle"}

\* Every record the merger handed over is in a new segment on disk: none is
\* left with the builder or in the batch.
NewSegmentsWritten ==
    /\ op.pending = <<>>
    /\ op.it = Len(op.batch)
    /\ op.pages_to_process = <<>>
    /\ KeysOf(op.offered) = WrittenKeys
    /\ \A j \in 1..Len(op.rewritten_segments) :
          op.rewritten_segments[j][2].id \in DOMAIN disk

\* The index between the two loops of step 4: the entries of the rewrite set
\* are gone, the others are as they were, and no new entry is in.
OldEntriesErased ==
    /\ DOMAIN index_ = DOMAIN op.pre.index \ PairKeys(op.segments_to_rewrite)
    /\ \A b \in DOMAIN index_ : index_[b] = op.pre.index[b]

IndexUpdateAfterZeroing ==
    /\ op.kind = "rewrite"
    /\ op.pc = "insert"
    /\ ~options_.bg_threads
    /\ op.overflows_to_clear # <<>>

\* The ids the operation has written new segments or pages to so far.
NewIds == {op.rewritten_segments[j][2].id : j \in 1..Len(op.rewritten_segments)}

\* The ids the index referred to when the operation began.
IndexedIds(idx) == {idx[b].id : b \in DOMAIN idx}

\* The operation has not reached the step that zeroes and frees the old ids.
BeforeInvalidation ==
    op.kind \in {"rewrite", "flatten"}
    /\ op.pc \in {"segment", "process", "leftover", "invalidate"}

\* C33: the ids LoadIntoNewSegment and LoadIntoNewPages write to during one
\* RewriteSegments or FlattenChain, taken from the free list or allocated,
\* are distinct, none of them is the id of an old segment or overflow of the
\* operation or an id the index refers to; until the last new segment is
\* written the old ids are not in the free list and the old segments and
\* overflows are on disk as they were.
C33_NewIdsFresh ==
    op.kind \in {"rewrite", "flatten"} =>
        /\ Cardinality(NewIds) = Len(op.rewritten_segments)
        /\ NewIds \cap SupersededIds = {}
        /\ NewIds \cap IndexedIds(op.pre.index) = {}
        /\ BeforeInvalidation =>
              /\ index_ = op.pre.index
              /\ SupersededIds \cap free_ = {}
              /\ \A id \in SupersededIds : disk[id] = op.pre.disk[id]

\* A RewriteSegments wrote a new segment to an id that an earlier operation
\* had put on the free list and another to an id it allocated, and has not
\* yet invalidated the old segments.
C33_Witness ==
    /\ op.kind = "rewrite"
    /\ BeforeInvalidation
    /\ NewIds \cap op.pre.free # {}
    /\ NewIds \ (op.pre.free \cup DOMAIN op.pre.disk) # {}

\* A FlattenChain wrote a page to an id from the free list and a page to an
\* id it allocated.
FlattenReusedAndAllocated ==
    /\ op.kind = "flatten"
    /\ op.pc = "invalidate"
    /\ NewIds \cap op.pre.free # {}
    /\ NewIds \ (op.pre.free \cup DOMAIN op.pre.disk) # {}

\* Every page of the segments the operation has written so far carries the
\* sequence number seq.
NewPagesStamped(seq) ==
    \A id \in NewIds : \A i \in 1..Len(disk[id]) : disk[id][i].seq = seq

\* C34: every RewriteSegments and FlattenChain takes the next sequence
\* number, one more than the call before it, and every page it writes, the
\* last, partially filled page of LoadIntoNewPages included, carries that
\* sequence number.
C34_PagesCarrySequenceNumber ==
    op.kind \in {"rewrite", "flatten"} =>
        /\ op.sequence_number + 1 = next_sequence_number_
        /\ NewPagesStamped(op.sequence_number)

\* The part that holds: the sequence numbers of the calls go up by one, and
\* every page a RewriteSegments writes carries the number of the call.
RewriteCarriesSequenceNumber ==
    /\ op.kind \in {"rewrite", "flatten"} =>
          op.sequence_number + 1 = next_sequence_number_
    /\ op.kind = "rewrite" => NewPagesStamped(op.sequence_number)

\* A second RewriteSegments has written segments of two pages.
SecondRewriteWrote ==
    /\ op.kind = "rewrite"
    /\ op.sequence_number >= 1
    /\ \E id \in NewIds : Len(disk[id]) = 2

\* The pages of a FlattenChain but the last one carry the number of the
\* call; the last one carries it when the records fill it to the goal.
FlattenFullPagesStamped ==
    op.kind = "flatten" =>
        \A j \in 1..Len(op.rewritten_segments) :
            LET page == disk[op.rewritten_segments[j][2].id][1]
            IN (j < Len(op.rewritten_segments)
                   \/ Len(page.recs) = options_.records_per_page_goal)
                  => page.seq = op.sequence_number

\* C35: the pages ForEachPage copies into the window for a segment are the
\* pages ReadSegment loaded for it, also when the check of the room for the
\* overflows flushed the window between the read and the copy.
C35_CopiedIsRead ==
    (op.kind = "rewrite" /\ op.copied # <<>>) => op.copied = op.read

\* The window was flushed between ReadSegment and the copy: w_.buffer() held
\* a segment that LoadIntoNewSegment had just written when the pages were
\* copied.
CopiedAfterFlush ==
    /\ op.kind = "rewrite"
    /\ op.pc = "process"
    /\ op.copied # op.read
    /\ op.stale
    /\ \E j \in 1..Len(op.rewritten_segments) :
          op.copied[1] = disk[op.rewritten_segments[j][2].id][1]

\* Without a flush between the read and the copy the pages copied are the
\* pages read.
CopiedIsReadUnlessFlushed ==
    (op.kind = "rewrite" /\ op.copied # <<>> /\ ~op.stale) => op.copied = op.read

\* A rewrite in which no flush came between the read of a segment and the
\* copy of its pages keeps the records, supersedes every old id, keeps the
\* key ranges of the index and offers the records in key order.
SoundUnlessFlushedAfterRead ==
    (op.kind = "rewrite" /\ ~op.stale) =>
        /\ OfferedInOrder
        /\ RewriteReturned =>
              /\ op.asserts
              /\ RecordsUnder(disk, index_, PairKeys(op.rewritten_segments))
                     = NewestWins(OldRecords, op.batch)
              /\ \A id \in SupersededIds :
                    /\ disk[id][1] = PgZeroPage
                    /\ id \in free_
                    /\ \A b \in DOMAIN index_ : index_[b].id # id
              /\ KeyRangeInvariant(index_, disk)
              /\ \A i, j \in 1..Len(op.rewritten_segments) :
                    i < j => op.rewritten_segments[i][1] < op.rewritten_segments[j][1]

\* A rewrite returned in which a flush came between the read of a segment
\* and the copy of its pages: records of the old segments are in no new
\* segment and an overflow page of the old segments is left as it was.
RewriteReturnedStale ==
    /\ RewriteReturned
    /\ op.stale
    /\ \E r \in OldRecords :
          r \notin Range(RecordsUnder(disk, index_, PairKeys(op.rewritten_segments)))
    /\ \E id \in SupersededIds : disk[id][1] # PgZeroPage /\ id \notin free_

=============================================================================
